---------------------------- MODULE Spec2Model ----------------------------
(***************************************************************************)
(* Model of the schema-validating XML front end of authord-render-core:    *)
(* the DTD / XSD content-model matchers, the validators that walk a        *)
(* document against an index, and the XML sanitizer.                       *)
(*                                                                         *)
(* Strings of the program are strings, read one character at a time;      *)
(* name lists (child names, attribute names) are sequences of whole names. *)
(* Each area of the program has its own variables and its own              *)
(* specification; the variables of the other areas stay idle.              *)
(***************************************************************************)
EXTENDS Integers, Sequences, FiniteSets, TLC

VARIABLES
    dtdModel,      \* matchesDtdModel: the content model (DtdContentModel)
    dtdChildren,   \* matchesDtdModel: the child names
    dtdOk,         \* matchesDtdModel: "pending" before the call, then "true" / "false"
    xsdParticle,   \* matchesParticle: the particle (XsdParticle)
    xsdChildren,   \* matchesParticle: the child names
    xsdIndex,      \* matchesParticle: the XsdIndex (groups, substitutionGroups)
    xsdMinAttr,    \* the minOccurs attribute the root particle was parsed from
    xsdMaxAttr,    \* the maxOccurs attribute the root particle was parsed from
    xsdOk,         \* matchesParticle: "pending" before the call, then "true" / "false",
                   \* or "RangeError" when the call threw
    valDecls,      \* buildDtdIndex: the declarations of the DTD text
    valDtd,        \* the DtdIndex, once built
    valXsd,        \* the XsdIndex the document is validated against
    valRoot,       \* the root element of the document
    valExpectedRoot, \* the expected root name of the parser
    valOutcome,    \* validateAgainstDtd / validateAgainstXsd: how the call ended
    sanSource,     \* what the text handed to the sanitizer was written from
    sanXml,        \* preSanitize: the text
    sanOpts,       \* preSanitize: the options of the call
    sanOutcome,    \* preSanitize / its entity stage: how the call ended
    sanAgain,      \* preSanitize called on the text the first call returned
    parseParser,   \* Parser.parse: the class of the parser (this)
    parseDoc,      \* Parser.parse: the document the text xml stands for
    parseFetcher,  \* Parser.parse: how the injected fetcher behaves, and the schema it answers
    parsePc,       \* Parser.parse: "idle", "awaiting" (at the await of the fetch) or "done"
    parseFetch,    \* the promise the fetcher returned, and the url of each fetcher call
    parseSteps,    \* the steps of parse that have been invoked, in order
    parseOutcome,  \* how the promise that parse returned has settled
    bldAst,        \* buildXsdIndex: the tree of the schema text
    bldOutcome,    \* buildXsdIndex: how the call ended
    renRoot,       \* renderXast: the root element
    renPc,         \* renderXast: "idle", "awaiting" (at the await of a renderer) or "done"
    renSteps,      \* renderXast: the rendering steps invoked, in order, each with its argument
    renOutcome,    \* how the promise that renderXast returned has settled
    strText,       \* applyContainerPoliciesStream: the text s
    strSets,       \* the name sets and the flags built from the options o
    strI,          \* the cursor i of the while loop
    strOut,        \* the output out so far
    strCtx,        \* the container context stack ctxStack
    strLast,       \* the token of the last turn of the loop, and the stack before it
    synProps,      \* IPropertyStore: the export hash stored for each page id
    synPages,      \* IPageRepository: the storage body of each page id
    synCalls,      \* the calls of ConfluenceSync.sync: where each is, and its locals
    synStarted,    \* how many calls of sync have been made
    synHistory,    \* what has happened to each page id: the bodies written, the overlaps
    sizeCache,     \* getOriginalSize: the map sizeCache, from file path to size
    sizePending,   \* the map sizePending, from file path to the promise of a size
    sizePromises,  \* the promises that the calls have made, in the order of their making
    sizeCalls,     \* the calls of getOriginalSize: where each is, and what it returned
    sizeReads,     \* the invocations of the reader, in order, each with its path
    sizeStarted    \* how many calls of getOriginalSize have been made

dtdVars == <<dtdModel, dtdChildren, dtdOk>>

xsdVars == <<xsdParticle, xsdChildren, xsdIndex, xsdMinAttr, xsdMaxAttr, xsdOk>>

valVars == <<valDecls, valDtd, valXsd, valRoot, valExpectedRoot, valOutcome>>

sanVars == <<sanSource, sanXml, sanOpts, sanOutcome, sanAgain>>

parseVars ==
    <<parseParser, parseDoc, parseFetcher, parsePc, parseFetch, parseSteps, parseOutcome>>

bldVars == <<bldAst, bldOutcome>>

renVars == <<renRoot, renPc, renSteps, renOutcome>>

strVars == <<strText, strSets, strI, strOut, strCtx, strLast>>

synVars == <<synProps, synPages, synCalls, synStarted, synHistory>>

sizeVars == <<sizeCache, sizePending, sizePromises, sizeCalls, sizeReads, sizeStarted>>

vars == <<dtdVars, xsdVars, valVars, sanVars, parseVars, bldVars, renVars, strVars, synVars,
          sizeVars>>

(***************************************************************************)
(* Bounds of the model.                                                    *)
(***************************************************************************)
MaxChildren == 4
MaxItems == 2
MaxXsdChildren == 3
MaxOccursAttr == 2

(***************************************************************************)
(* Generic helpers.                                                        *)
(***************************************************************************)
Max2(a, b) == IF a >= b THEN a ELSE b

\* a boolean result as the value a result variable holds
Verdict(b) == IF b THEN "true" ELSE "false"

SeqsUpTo(S, n) == UNION { [1..k -> S] : k \in 0..n }

SeqsFromTo(S, m, n) == UNION { [1..k -> S] : k \in m..n }

Slice(s, from, to) == [k \in 1..(to - from) |-> s[from + k]]

(***************************************************************************)
(* DTD content models (xast_xml.ts, DtdContentModel) and their matcher     *)
(* (dtd_validator.ts).  Positions are 0-based as in the source:            *)
(* children[pos] of the source is children[pos + 1] here.                  *)
(***************************************************************************)
DtdName(n, o) == [kind |-> "NAME", name |-> n, occurs |-> o, items |-> <<>>]
DtdPcdata(o) == [kind |-> "PCDATA", name |-> "", occurs |-> o, items |-> <<>>]
DtdSeq(its, o) == [kind |-> "SEQ", name |-> "", occurs |-> o, items |-> its]
DtdChoice(its, o) == [kind |-> "CHOICE", name |-> "", occurs |-> o, items |-> its]

DtdOccurs == {"1", "?", "*", "+"}

\* MaxOccurs = number | "unbounded": the sentinel, kept apart from every count
Unbounded == -1

\* occursToRange with "+" read as "*"
occursToRange_PlusAsStar(o) ==
    CASE o = "?" -> [min |-> 0, max |-> 1]
      [] o = "*" -> [min |-> 0, max |-> Unbounded]
      [] o = "+" -> [min |-> 0, max |-> Unbounded]
      [] OTHER -> [min |-> 1, max |-> 1]

occursToRange(o) ==
    CASE o = "?" -> [min |-> 0, max |-> 1]
      [] o = "*" -> [min |-> 0, max |-> Unbounded]
      [] o = "+" -> [min |-> 1, max |-> Unbounded]
      [] OTHER -> [min |-> 1, max |-> 1]

RECURSIVE match(_, _, _)
RECURSIVE matchOnce(_, _, _)
RECURSIVE matchRequired(_, _, _, _, _)
RECURSIVE matchExtra(_, _, _, _, _, _)
RECURSIVE matchSeqItems(_, _, _, _)

\* for (const p of current) for (const e of onceEnds(p)) next.add(e)
onceEndsOf(node, children, current) ==
    UNION { matchOnce(node, children, p) : p \in current }

\* The "required occurrences" loop: the positions after min occurrences,
\* {} as soon as one round reaches nothing.
matchRequired(node, children, current, i, min) ==
    IF i >= min THEN current
    ELSE LET next == onceEndsOf(node, children, current)
         IN  IF next = {} THEN {}
             ELSE matchRequired(node, children, next, i + 1, min)

\* The "optional extra occurrences" loop with its zero-width guard.
matchExtra(node, children, prev, results, i, maxExtra) ==
    IF i >= maxExtra THEN results
    ELSE LET next == onceEndsOf(node, children, prev)
             progressed == \E e \in next : e \notin prev
         IN  IF next = {} \/ ~progressed THEN results \cup next
             ELSE matchExtra(node, children, next, results \cup next, i + 1, maxExtra)

\* The memo of the source caches match(node, pos) for one children list; the
\* function is pure, so the cached and the computed answer are the same set.
match(node, children, pos) ==
    LET r == occursToRange(node.occurs)
        current == matchRequired(node, children, {pos}, 0, r.min)
        maxExtra == IF r.max = Unbounded THEN Len(children) - pos ELSE r.max - r.min
    IN  IF r.min > 0 /\ current = {} THEN {}
        ELSE matchExtra(node, children, current, current, 0, maxExtra)

matchSeqItems(items, children, positions, k) ==
    IF k > Len(items) \/ positions = {} THEN positions
    ELSE matchSeqItems(items, children,
             UNION { match(items[k], children, p) : p \in positions }, k + 1)

matchOnce(node, children, pos) ==
    CASE node.kind = "NAME" ->
             IF pos < Len(children) /\ children[pos + 1] = node.name
             THEN {pos + 1} ELSE {}
      [] node.kind = "PCDATA" -> {pos}
      [] node.kind = "SEQ" -> matchSeqItems(node.items, children, {pos}, 1)
      [] node.kind = "CHOICE" ->
             UNION { match(node.items[k], children, pos) : k \in 1..Len(node.items) }

matchesDtdModel(model, children) == Len(children) \in match(model, children, 0)

(***************************************************************************)
(* XSD particles (xsd_index.ts, XsdParticle) and their matcher             *)
(* (xsd_validator.ts).  An index is a record of maps; a Map of the source  *)
(* is a function whose DOMAIN is the key set.                              *)
(***************************************************************************)
Occ(mn, mx) == [min |-> mn, max |-> mx]

XsdEmpty(o) == [kind |-> "empty", name |-> "", items |-> <<>>, occurs |-> o]
XsdElement(n, o) == [kind |-> "element", name |-> n, items |-> <<>>, occurs |-> o]
XsdAny(o) == [kind |-> "any", name |-> "", items |-> <<>>, occurs |-> o]
XsdSequence(its, o) == [kind |-> "sequence", name |-> "", items |-> its, occurs |-> o]
XsdChoice(its, o) == [kind |-> "choice", name |-> "", items |-> its, occurs |-> o]
XsdAll(its, o) == [kind |-> "all", name |-> "", items |-> its, occurs |-> o]
\* the ref of a groupRef is held in the name field
XsdGroupRef(r, o) == [kind |-> "groupRef", name |-> r, items |-> <<>>, occurs |-> o]

emptyParticle == XsdEmpty(Occ(1, 1))

\* An attribute of a schema element: absent, the decimal text of n, the text
\* "unbounded", or any other text.
AttrAbsent == [k |-> "absent", n |-> 0]
AttrNum(n) == [k |-> "num", n |-> n]
AttrUnbounded == [k |-> "unbounded", n |-> 0]
AttrOther == [k |-> "other", n |-> 0]

\* parseInt(attr ?? "1", 10): NaN for a text that starts with no digit
parseIntOr1(a) ==
    CASE a.k = "absent" -> [finite |-> TRUE, value |-> 1]
      [] a.k = "num" -> [finite |-> TRUE, value |-> a.n]
      [] OTHER -> [finite |-> FALSE, value |-> 0]

\* occursFromEl with a missing minOccurs read as 0
occursFromEl_MissingMinZero(minAttr, maxAttr) ==
    LET max == parseIntOr1(maxAttr)
    IN  [min |-> IF minAttr.k = "num" THEN minAttr.n ELSE 0,
         max |-> IF maxAttr.k = "unbounded" THEN Unbounded
                 ELSE IF max.finite THEN max.value ELSE 1]

occursFromEl(minAttr, maxAttr) ==
    LET min == parseIntOr1(minAttr)
        maxIsUnbounded == maxAttr.k = "unbounded"
        max == parseIntOr1(maxAttr)
    IN  [min |-> IF min.finite THEN min.value ELSE 1,
         max |-> IF maxIsUnbounded THEN Unbounded
                 ELSE IF max.finite THEN max.value ELSE 1]

\* Map.get on a function: the value, or the given default for a missing key
MapGet(f, k, dflt) == IF k \in DOMAIN f THEN f[k] ELSE dflt

matchesElementName(expected, actual, xsd) ==
    \/ expected = actual
    \/ /\ expected \in DOMAIN xsd.substitutionGroups
       /\ actual \in xsd.substitutionGroups[expected]

\* the number of entries of prefix equal to n (counts.get(n) ?? 0)
CountOf(prefix, n) == Cardinality({ k \in 1..Len(prefix) : prefix[k] = n })

\* allSatisfied without the check of an item's maximum
allSatisfied_NoMax(items, prefix) ==
    /\ \A k \in 1..Len(items) : items[k].kind \in {"element", "any"}
    /\ (\E k \in 1..Len(items) : items[k].kind = "any")
          \/ \A j \in 1..Len(prefix) : \E k \in 1..Len(items) : items[k].name = prefix[j]
    /\ \A k \in 1..Len(items) :
          items[k].kind = "element" => CountOf(prefix, items[k].name) >= items[k].occurs.min

allSatisfied(items, prefix) ==
    LET I == 1..Len(items)
        anyItems == { k \in I : items[k].kind = "any" }
        allowed == { items[k].name : k \in I }
        firstLoopOk ==
            anyItems # {} \/
                /\ \A k \in I : items[k].kind = "element"
                /\ \A j \in 1..Len(prefix) : prefix[j] \in allowed
        itemOk(it) ==
            CASE it.kind = "element" ->
                     LET c == CountOf(prefix, it.name)
                     IN  ~(c < it.occurs.min
                           \/ (it.occurs.max # Unbounded /\ c > it.occurs.max))
              [] it.kind = "any" -> TRUE
              [] OTHER -> FALSE
    IN  firstLoopOk /\ \A k \in I : itemOk(items[k])

RECURSIVE xsdMatch(_, _, _, _, _)
RECURSIVE xsdMatchOnce(_, _, _, _, _)
RECURSIVE xsdMatchRequired(_, _, _, _, _, _, _)
RECURSIVE xsdMatchExtra(_, _, _, _, _, _, _, _)
RECURSIVE xsdMatchSeqItems(_, _, _, _, _, _)

\* match calls nested deeper than this exhaust the stack of the engine
MaxMatchDepth == 10

\* the end position that stands for the RangeError of an exhausted stack:
\* once reached it stays in every set of ends up to the result
StackOverflow == -1

xsdOnceEndsOf(node, children, xsd, current, depth) ==
    UNION { xsdMatchOnce(node, children, p, xsd, depth) : p \in current }

\* for (let i = 0; i < min; i++): {} as soon as one round reaches nothing
xsdMatchRequired(node, children, xsd, current, i, min, depth) ==
    IF i >= min THEN current
    ELSE LET next == xsdOnceEndsOf(node, children, xsd, current, depth)
         IN  IF next = {} THEN {}
             ELSE xsdMatchRequired(node, children, xsd, next, i + 1, min, depth)

\* for (let i = min; i < maxCount; i++) with its zero-width guard
xsdMatchExtra(node, children, xsd, prev, results, i, maxCount, depth) ==
    IF i >= maxCount THEN results
    ELSE LET next == xsdOnceEndsOf(node, children, xsd, prev, depth)
             progressed == \E e \in next : e \notin prev
         IN  IF next = {} \/ ~progressed THEN results \cup next
             ELSE xsdMatchExtra(node, children, xsd, next, results \cup next,
                                i + 1, maxCount, depth)

\* As for the DTD matcher, the memo caches a pure function of (node, pos);
\* it is written when a call returns, so it never ends a call that is
\* still running.  depth counts the match calls that are running.
xsdMatch(node, children, pos, xsd, depth) ==
    IF pos = StackOverflow \/ depth > MaxMatchDepth THEN {StackOverflow}
    ELSE
    LET min == node.occurs.min
        max == node.occurs.max
        maxCount == IF max = Unbounded THEN Len(children) - pos ELSE max
        current == xsdMatchRequired(node, children, xsd, {pos}, 0, min, depth)
    IN  IF min > 0 /\ current = {} THEN {}
        ELSE xsdMatchExtra(node, children, xsd, current, current, min, maxCount, depth)

xsdMatchSeqItems(items, children, xsd, positions, k, depth) ==
    IF k > Len(items) \/ positions = {} THEN positions
    ELSE xsdMatchSeqItems(items, children, xsd,
             UNION { xsdMatch(items[k], children, p, xsd, depth) : p \in positions },
             k + 1, depth)

xsdMatchOnce(node, children, pos, xsd, depth) ==
    CASE pos = StackOverflow -> {StackOverflow}
      [] pos # StackOverflow /\ node.kind = "empty" -> {pos}
      [] pos # StackOverflow /\ node.kind = "element" ->
             IF pos < Len(children)
                /\ matchesElementName(node.name, children[pos + 1], xsd)
             THEN {pos + 1} ELSE {}
      [] pos # StackOverflow /\ node.kind = "any" ->
             IF pos < Len(children) THEN {pos + 1} ELSE {}
      [] pos # StackOverflow /\ node.kind = "groupRef" ->
             IF node.name \notin DOMAIN xsd.groups THEN {}
             ELSE xsdMatch(xsd.groups[node.name], children, pos, xsd, depth + 1)
      [] pos # StackOverflow /\ node.kind = "sequence" ->
             xsdMatchSeqItems(node.items, children, xsd, {pos}, 1, depth + 1)
      [] pos # StackOverflow /\ node.kind = "choice" ->
             UNION { xsdMatch(node.items[k], children, pos, xsd, depth + 1) :
                        k \in 1..Len(node.items) }
      [] pos # StackOverflow /\ node.kind = "all" ->
             { end \in pos..Len(children) :
                  allSatisfied(node.items, Slice(children, pos, end)) }

\* the ends of match(p, children, 0, xsd, memo)
matchEnds(p, children, xsd) == xsdMatch(p, children, 0, xsd, 0)

\* ends.includes(children.length), for a call that returned
matchesParticle(p, children, xsd) == Len(children) \in matchEnds(p, children, xsd)

\* how matchesParticle ends: with a boolean, or with the RangeError
outcomeOfEnds(ends, n) ==
    IF StackOverflow \in ends THEN "RangeError" ELSE Verdict(n \in ends)

matchOutcome(p, children, xsd) == outcomeOfEnds(matchEnds(p, children, xsd), Len(children))

(***************************************************************************)
(* Strings.  A string of the program is a string here; TLC reads it one    *)
(* character at a time with SubSeq.  Indices are 0-based as in the source. *)
(***************************************************************************)
\* s[i]; "" stands for the undefined read past either end
CharAt(s, i) == IF i >= 0 /\ i < Len(s) THEN SubSeq(s, i + 1, i + 1) ELSE ""

\* s.slice(from, to) for 0 <= from
StrSlice(s, from, to) == SubSeq(s, from + 1, IF to > Len(s) THEN Len(s) ELSE to)

\* s.slice(from)
StrFrom(s, from) == StrSlice(s, from, Len(s))

\* the characters /\s/ and trim() take for white space, as far as the inputs go
WhiteSpace == {" ", "\t", "\n", "\r"}

RECURSIVE IndexOfFrom(_, _, _)
\* s.indexOf(c, i) for a one-character c; -1 when there is none
IndexOfFrom(s, c, i) ==
    IF i >= Len(s) THEN -1
    ELSE IF CharAt(s, i) = c THEN i ELSE IndexOfFrom(s, c, i + 1)

RECURSIVE TrimEndAt(_, _)
TrimEndAt(s, n) == IF n > 0 /\ CharAt(s, n - 1) \in WhiteSpace THEN TrimEndAt(s, n - 1) ELSE n

RECURSIVE TrimStartAt(_, _)
TrimStartAt(s, i) == IF i < Len(s) /\ CharAt(s, i) \in WhiteSpace THEN TrimStartAt(s, i + 1) ELSE i

\* s.trim()
Trim(s) == LET a == TrimStartAt(s, 0) IN StrSlice(s, a, Max2(a, TrimEndAt(s, Len(s))))

RECURSIVE JoinFrom(_, _, _)
JoinFrom(parts, sep, k) ==
    IF k > Len(parts) THEN ""
    ELSE IF k = Len(parts) THEN parts[k]
    ELSE parts[k] \o sep \o JoinFrom(parts, sep, k + 1)

\* parts.join(sep)
Join(parts, sep) == JoinFrom(parts, sep, 1)

\* localName (xast_xml.ts): the part after the first colon
localName(qname) ==
    LET i == IndexOfFrom(qname, ":", 0) IN IF i >= 0 THEN StrFrom(qname, i + 1) ELSE qname

(***************************************************************************)
(* DtdModelParser (xast_xml.ts): the recursive-descent parser of an        *)
(* ELEMENT content model.  The parser's cursor this.i is threaded through  *)
(* the results; a thrown Error is a result with ok = FALSE.                *)
(***************************************************************************)
Parsed(node, i) == [ok |-> TRUE, node |-> node, i |-> i, err |-> ""]

ParseError(e, i) == [ok |-> FALSE, node |-> DtdPcdata("1"), i |-> i, err |-> e]

RECURSIVE skipWs(_, _)
skipWs(s, i) == IF i < Len(s) /\ CharAt(s, i) \in WhiteSpace THEN skipWs(s, i + 1) ELSE i

NameStop == WhiteSpace \cup {"(", ")", "|", ",", "?", "*", "+"}

RECURSIVE readNameEnd(_, _)
readNameEnd(s, i) ==
    IF i < Len(s) /\ CharAt(s, i) \notin NameStop THEN readNameEnd(s, i + 1) ELSE i

readName(s, i) ==
    LET start == skipWs(s, i)
        end == readNameEnd(s, start)
    IN [name |-> StrSlice(s, start, end), i |-> end]

\* expect(")") after skipWs
expectClose(s, i, node) ==
    IF CharAt(s, skipWs(s, i)) # ")" THEN ParseError("Expected ')'", skipWs(s, i))
    ELSE Parsed(node, skipWs(s, i) + 1)

\* the closing parenthesis after a group that parsed
closeGroup(s, r) == IF ~r.ok THEN r ELSE expectClose(s, r.i, r.node)

RECURSIVE parseMixedNames(_, _, _)
RECURSIVE parseExpr(_, _)
RECURSIVE parseExprRest(_, _, _, _)
RECURSIVE parseTerm(_, _)
RECURSIVE parseAtom(_, _)

\* one NAME of the mixed loop, read by readName
mixedName(s, nm, items) ==
    IF nm.name = "" THEN ParseError("Expected NAME in mixed model", nm.i)
    ELSE parseMixedNames(s, nm.i, Append(items, DtdName(nm.name, "1")))

\* the loop of the mixed branch of parseAtom, the cursor j past white space
mixedNamesAt(s, j, items) ==
    IF CharAt(s, j) # "|" THEN Parsed(DtdChoice(items, "1"), j)
    ELSE mixedName(s, readName(s, j + 1), items)

\* the loop of the mixed branch of parseAtom: ('|' NAME)*
parseMixedNames(s, i, items) == mixedNamesAt(s, skipWs(s, i), items)

\* parseAtom after "(#PCDATA" and white space
pcdataAtom(s, k) ==
    IF CharAt(s, k) = ")" THEN Parsed(DtdPcdata("1"), k + 1)
    ELSE closeGroup(s, parseMixedNames(s, k, <<DtdPcdata("1")>>))

\* parseAtom after "(" and white space
groupAtom(s, j) ==
    IF StrSlice(s, j, j + 7) = "#PCDATA" THEN pcdataAtom(s, skipWs(s, j + 7))
    ELSE closeGroup(s, parseExpr(s, j))

\* parseAtom on a NAME read by readName
nameAtom(nm) ==
    IF nm.name = "" THEN ParseError("Expected NAME", nm.i)
    ELSE Parsed(DtdName(nm.name, "1"), nm.i)

\* parseAtom, the cursor i past white space
parseAtomAt(s, i) ==
    IF CharAt(s, i) = "(" THEN groupAtom(s, skipWs(s, i + 1)) ELSE nameAtom(readName(s, i))

parseAtom(s, i0) == parseAtomAt(s, skipWs(s, i0))

\* the quantifier of parseTerm after the atom a, the cursor j past white space
termQuantifier(s, a, j) ==
    IF CharAt(s, j) \in {"?", "*", "+"}
       THEN Parsed([a.node EXCEPT !.occurs = CharAt(s, j)], j + 1)
       ELSE Parsed(a.node, j)

\* parseTerm after its atom
termAfterAtom(s, a) == IF ~a.ok THEN a ELSE termQuantifier(s, a, skipWs(s, a.i))

parseTerm(s, i0) == termAfterAtom(s, parseAtom(s, skipWs(s, i0)))

\* the end of the loop of parseExpr; mode "" is the null mode
exprResult(items, mode, i) ==
    IF mode = "" THEN Parsed(items[1], i)
    ELSE Parsed([kind |-> mode, name |-> "", occurs |-> "1", items |-> items], i)

\* the loop of parseExpr after the term right
exprNext(s, right, items, mode) ==
    IF ~right.ok THEN right
    ELSE parseExprRest(s, right.i, Append(items, right.node), mode)

\* the loop of parseExpr without the check of the mode
exprRestAt_AnyMode(s, i, items, mode, nextMode) ==
    IF CharAt(s, i) \notin {"|", ","} THEN exprResult(items, mode, i)
    ELSE exprNext(s, parseTerm(s, i + 1), items, nextMode)

\* one turn of the loop of parseExpr, the cursor i past white space
exprRestAt(s, i, items, mode, nextMode) ==
    IF CharAt(s, i) \notin {"|", ","} THEN exprResult(items, mode, i)
    ELSE IF mode # "" /\ mode # nextMode
         THEN ParseError("Mixed '|' and ',' without parentheses", i)
         ELSE exprNext(s, parseTerm(s, i + 1), items, nextMode)

\* the while loop of parseExpr
parseExprRest(s, i0, items, mode) ==
    exprRestAt(s, skipWs(s, i0), items, mode,
               IF CharAt(s, skipWs(s, i0)) = "|" THEN "CHOICE" ELSE "SEQ")

\* parseExpr after its first term
exprFirst(s, left) ==
    IF ~left.ok THEN left ELSE parseExprRest(s, skipWs(s, left.i), <<left.node>>, "")

parseExpr(s, i0) == exprFirst(s, parseTerm(s, i0))

\* the end of DtdModelParser.parse: nothing but white space may follow
parseEnd(s, r) ==
    IF ~r.ok THEN r
    ELSE IF skipWs(s, r.i) # Len(s)
         THEN ParseError("Trailing content-model input", skipWs(s, r.i))
         ELSE Parsed(r.node, skipWs(s, r.i))

\* DtdModelParser.parse
parse(s) == parseEnd(s, parseExpr(s, 0))

\* the contents "ANY" and "EMPTY" of a DtdElement, as nodes of their own kind
DtdAnyContent == [kind |-> "ANY", name |-> "", occurs |-> "1", items |-> <<>>]

DtdEmptyContent == [kind |-> "EMPTY", name |-> "", occurs |-> "1", items |-> <<>>]

\* parseElementModel on the trimmed text
parseTrimmedModel(m) ==
    IF m = "ANY" THEN Parsed(DtdAnyContent, Len(m))
    ELSE IF m = "EMPTY" THEN Parsed(DtdEmptyContent, Len(m))
    ELSE parse(m)

parseElementModel(model) == parseTrimmedModel(Trim(model))

(***************************************************************************)
(* Documents (xast).  An element has a qualified name, its attributes (the *)
(* own properties of el.attributes, in insertion order) and its children;  *)
(* a text node has a value.                                                *)
(***************************************************************************)
ElementNode(n, attributes, children) ==
    [type |-> "element", name |-> n, attributes |-> attributes, children |-> children,
     value |-> ""]

TextNode(v) ==
    [type |-> "text", name |-> "", attributes |-> <<>>, children |-> <<>>, value |-> v]

Attr(n, v) == [name |-> n, value |-> v]

\* Object.keys(attrsObj)
AttrNames(attributes) == [k \in 1..Len(attributes) |-> attributes[k].name]

\* attrsObj[a] of an own property
AttrValue(attributes, a) ==
    (CHOOSE e \in { attributes[k] : k \in 1..Len(attributes) } : e.name = a).value

\* the properties every object literal inherits from Object.prototype
ObjectPrototypeKeys ==
    {"constructor", "toString", "toLocaleString", "valueOf", "hasOwnProperty",
     "isPrototypeOf", "propertyIsEnumerable", "__proto__"}

\* a in attrsObj: the in operator looks through the prototype chain, and
\* attrsObj is el.attributes or the literal {}
InAttrs(a, attributes) ==
    \/ \E k \in 1..Len(attributes) : attributes[k].name = a
    \/ a \in ObjectPrototypeKeys

StartsWith(s, p) == StrSlice(s, 0, Len(p)) = p

RECURSIVE Flatten(_, _)
\* the concatenation of seqs[k..]
Flatten(seqs, k) == IF k > Len(seqs) THEN <<>> ELSE seqs[k] \o Flatten(seqs, k + 1)

IsElement(c) == c.type = "element"

IsText(c) == c.type = "text"

childElements(el) == SelectSeq(el.children, IsElement)

\* whether nonWhitespaceText(el) returns a text (a non-empty, truthy string)
nonWhitespaceText(el) ==
    \E k \in 1..Len(el.children) :
        IsText(el.children[k]) /\ Trim(el.children[k].value) # ""

KidNames(el) ==
    LET kids == childElements(el) IN [k \in 1..Len(kids) |-> localName(kids[k].name)]

ValidationError(path, msg) == [path |-> path, msg |-> msg]

(***************************************************************************)
(* The DTD index (xast_xml.ts, buildDtdIndex).  The declarations are taken *)
(* after the split of their header: an ELEMENT declaration is a name and   *)
(* the text of its content model, an ATTLIST declaration a name and its    *)
(* attribute declarations.  The Map of elements is a function on names;    *)
(* the Sets declaredAttrs and requiredAttrs are the sequences of their     *)
(* members in insertion order.                                             *)
(***************************************************************************)
ElementDecl(n, modelText) == [decl |-> "ELEMENT", name |-> n, model |-> modelText, attrs |-> <<>>]

AttlistDecl(n, attrs) == [decl |-> "ATTLIST", name |-> n, model |-> "", attrs |-> attrs]

\* a DtdAttributeDecl; values are the members of an ENUM in insertion order
AttrDecl(n, typeKind, values, defaultKind, defaultValue) ==
    [name |-> n, type |-> [kind |-> typeKind, values |-> values],
     defaultDecl |-> [kind |-> defaultKind, value |-> defaultValue]]

RECURSIVE collectNames(_)
\* the names that collectNames adds to the set
collectNames(cm) ==
    IF cm.kind = "NAME" THEN {cm.name}
    ELSE IF cm.kind = "PCDATA" THEN {}
    ELSE UNION { collectNames(cm.items[k]) : k \in 1..Len(cm.items) }

\* allowedChildren: "ANY", "EMPTY" or a set of names
deriveAllowedChildren(content) ==
    IF content.kind = "ANY" THEN [kind |-> "ANY", names |-> {}]
    ELSE IF content.kind = "EMPTY" THEN [kind |-> "EMPTY", names |-> {}]
    ELSE [kind |-> "SET", names |-> collectNames(content)]

\* the record of an element that is not in the Map yet
DtdElement(n, content, allowedChildren) ==
    [name |-> n, content |-> content, allowedChildren |-> allowedChildren,
     attrs |-> <<>>, declaredAttrs |-> <<>>, requiredAttrs |-> <<>>]

MapPut(f, k, v) == [x \in DOMAIN f \cup {k} |-> IF x = k THEN v ELSE f[x]]

SeqHas(s, x) == \E k \in 1..Len(s) : s[k] = x

\* Set.add on an insertion-ordered set
SetAdd(s, x) == IF SeqHas(s, x) THEN s ELSE Append(s, x)

RECURSIVE addAttrs(_, _, _)
\* the loop over the attributes of one ATTLIST declaration
addAttrs(base, attrs, k) ==
    IF k > Len(attrs) THEN base
    ELSE LET a == attrs[k]
             withAttr == [base EXCEPT !.attrs = MapPut(base.attrs, a.name, a),
                                      !.declaredAttrs = SetAdd(@, a.name)]
         IN addAttrs(IF a.defaultDecl.kind = "#REQUIRED"
                        THEN [withAttr EXCEPT !.requiredAttrs = SetAdd(@, a.name)]
                        ELSE withAttr,
                     attrs, k + 1)

RECURSIVE buildDtdIndexFrom(_, _, _)

\* an ELEMENT declaration that leaves the record of an ATTLIST as it is
addElement_KeepsExisting(decls, k, elements, d, content) ==
    IF ~content.ok THEN [ok |-> FALSE, elements |-> <<>>]
    ELSE buildDtdIndexFrom(decls, k + 1,
            MapPut(elements, d.name,
                   IF d.name \in DOMAIN elements THEN elements[d.name]
                   ELSE DtdElement(d.name, content.node,
                            deriveAllowedChildren(content.node))))

\* an ELEMENT declaration whose content model parsed to content
addElement(decls, k, elements, d, content) ==
    IF ~content.ok THEN [ok |-> FALSE, elements |-> <<>>]
    ELSE buildDtdIndexFrom(decls, k + 1,
            MapPut(elements, d.name,
                   IF d.name \in DOMAIN elements
                      THEN [elements[d.name] EXCEPT
                                !.content = content.node,
                                !.allowedChildren = deriveAllowedChildren(content.node)]
                      ELSE DtdElement(d.name, content.node,
                               deriveAllowedChildren(content.node))))

\* an ATTLIST declaration
addAttlist(decls, k, elements, d) ==
    buildDtdIndexFrom(decls, k + 1,
        MapPut(elements, d.name,
               addAttrs(IF d.name \in DOMAIN elements THEN elements[d.name]
                        ELSE DtdElement(d.name, DtdAnyContent, [kind |-> "ANY", names |-> {}]),
                        d.attrs, 1)))

\* the loop over the declarations; ok = FALSE when a content model fails to parse
buildDtdIndexFrom(decls, k, elements) ==
    IF k > Len(decls) THEN [ok |-> TRUE, elements |-> elements]
    ELSE IF decls[k].decl = "ELEMENT"
         THEN addElement(decls, k, elements, decls[k], parseElementModel(decls[k].model))
         ELSE addAttlist(decls, k, elements, decls[k])

buildDtdIndex(decls) == buildDtdIndexFrom(decls, 1, <<>>)

(***************************************************************************)
(* The DTD validator (dtd_validator.ts).  Every function that pushes onto  *)
(* the errors array is the sequence of the errors it pushes.               *)
(***************************************************************************)
IGNORE_ATTR_PREFIX == <<"xmlns", "xml:", "xsi:">>

IsIgnoredAttr(a) == \E k \in 1..Len(IGNORE_ATTR_PREFIX) : StartsWith(a, IGNORE_ATTR_PREFIX[k])

validateAttrValue(decl, value, here) ==
    (IF decl.type.kind = "ENUM" /\ ~SeqHas(decl.type.values, value)
       THEN << ValidationError(here,
                  "Attribute \"" \o decl.name \o "\" must be one of ("
                     \o Join(decl.type.values, "|") \o "), got \"" \o value \o "\"") >>
       ELSE <<>>)
    \o
    (IF decl.defaultDecl.kind = "#FIXED" /\ value # decl.defaultDecl.value
       THEN << ValidationError(here,
                  "Attribute \"" \o decl.name \o "\" is #FIXED to \""
                     \o decl.defaultDecl.value \o "\", got \"" \o value \o "\"") >>
       ELSE <<>>)

MissingRequiredMsg(req, elementName) ==
    "Missing required attribute \"" \o req \o "\" on <" \o elementName \o ">"

validateAttrs(el, def, here) ==
    LET attrsObj == el.attributes
        attrNames == AttrNames(attrsObj)
        forAttr(a) ==
            IF IsIgnoredAttr(a) THEN <<>>
            ELSE IF a \notin DOMAIN def.attrs
                 THEN << ValidationError(here,
                            "Unknown attribute \"" \o a \o "\" on <" \o def.name \o ">") >>
                 ELSE validateAttrValue(def.attrs[a], AttrValue(attrsObj, a), here)
        forReq(req) ==
            IF ~InAttrs(req, attrsObj)
               THEN << ValidationError(here, MissingRequiredMsg(req, def.name)) >>
               ELSE <<>>
    IN Flatten([k \in 1..Len(attrNames) |-> forAttr(attrNames[k])], 1)
       \o Flatten([k \in 1..Len(def.requiredAttrs) |-> forReq(def.requiredAttrs[k])], 1)

isPcdataOnly(m) == m.kind = "PCDATA"

\* getMixedAllowedNames with the NAME items left out of the set
getMixedAllowedNames_NoNames(m) ==
    IF m.kind # "CHOICE" \/ m.occurs # "*" THEN [mixed |-> FALSE, names |-> {}]
    ELSE LET simple(it) == \/ it.kind = "PCDATA" /\ it.occurs = "1"
                           \/ it.kind = "NAME" /\ it.occurs = "1"
             its == { m.items[k] : k \in 1..Len(m.items) }
         IN IF \E it \in its : ~simple(it) THEN [mixed |-> FALSE, names |-> {}]
            ELSE [mixed |-> \E it \in its : it.kind = "PCDATA", names |-> {}]

\* null is mixed = FALSE
getMixedAllowedNames(m) ==
    IF m.kind # "CHOICE" \/ m.occurs # "*" THEN [mixed |-> FALSE, names |-> {}]
    ELSE LET simple(it) == \/ it.kind = "PCDATA" /\ it.occurs = "1"
                           \/ it.kind = "NAME" /\ it.occurs = "1"
             its == { m.items[k] : k \in 1..Len(m.items) }
         IN IF \E it \in its : ~simple(it) THEN [mixed |-> FALSE, names |-> {}]
            ELSE [mixed |-> \E it \in its : it.kind = "PCDATA",
                  names |-> { it.name : it \in { x \in its : x.kind = "NAME" } }]

RECURSIVE formatDtdModel(_)
formatDtdModel(m) ==
    LET parts == [k \in 1..Len(m.items) |-> formatDtdModel(m.items[k])]
        core == CASE m.kind = "NAME" -> m.name
                  [] m.kind = "PCDATA" -> "(#PCDATA)"
                  [] m.kind = "SEQ" -> "(" \o Join(parts, ",") \o ")"
                  [] m.kind = "CHOICE" -> "(" \o Join(parts, "|") \o ")"
    IN IF m.occurs = "1" THEN core ELSE core \o m.occurs

validateChildren(el, def, here) ==
    LET kidNames == KidNames(el)
        nonWsText == nonWhitespaceText(el)
        model == def.content
        mixed == getMixedAllowedNames(model)
        notAllowed(childName) ==
            IF childName \notin mixed.names
               THEN << ValidationError(here \o "/" \o childName,
                          "Child <" \o childName \o "> not allowed in mixed content of <"
                             \o def.name \o ">") >>
               ELSE <<>>
    IN CASE model.kind = "EMPTY" ->
              (IF Len(kidNames) > 0
                 THEN << ValidationError(here, "<" \o def.name \o "> must be EMPTY (no child elements)") >>
                 ELSE <<>>)
              \o (IF nonWsText
                    THEN << ValidationError(here, "<" \o def.name \o "> must be EMPTY (no character data)") >>
                    ELSE <<>>)
         [] model.kind = "ANY" -> <<>>
         [] isPcdataOnly(model) ->
              IF Len(kidNames) > 0
                 THEN << ValidationError(here, "<" \o def.name \o "> allows only #PCDATA (no child elements)") >>
                 ELSE <<>>
         [] OTHER ->
              IF mixed.mixed
                 THEN Flatten([k \in 1..Len(kidNames) |-> notAllowed(kidNames[k])], 1)
                 ELSE (IF nonWsText
                         THEN << ValidationError(here, "<" \o def.name \o "> does not allow character data") >>
                         ELSE <<>>)
                      \o (IF ~matchesDtdModel(model, kidNames)
                            THEN << ValidationError(here,
                                       "Child elements do not match DTD content model: expected "
                                          \o formatDtdModel(model) \o ", got ("
                                          \o Join(kidNames, ", ") \o ")") >>
                            ELSE <<>>)

RECURSIVE walk(_, _, _, _)
walk(el, path, expectedRoot, dtd) ==
    LET name == localName(el.name)
        here == IF path # "" THEN path \o "/" \o name ELSE "/" \o name
        kids == childElements(el)
    IN (IF path = "" /\ name # expectedRoot
          THEN << ValidationError(here, "Root must be <" \o expectedRoot \o ">") >>
          ELSE <<>>)
       \o (IF name \notin DOMAIN dtd.elements
             THEN << ValidationError(here, "Element <" \o name \o "> not declared in DTD") >>
             ELSE validateAttrs(el, dtd.elements[name], here)
                  \o validateChildren(el, dtd.elements[name], here))
       \o Flatten([k \in 1..Len(kids) |-> walk(kids[k], here, expectedRoot, dtd)], 1)

\* the lines of the message cut after the first error
ErrorLines_FirstOnly(errors) ==
    [k \in 1..(IF Len(errors) > 0 THEN 1 ELSE 0) |->
        "- " \o errors[k].path \o ": " \o errors[k].msg]

\* errors.map((e) => `- ${e.path}: ${e.msg}`)
ErrorLines(errors) ==
    [k \in 1..Len(errors) |-> "- " \o errors[k].path \o ": " \o errors[k].msg]

\* the outcome of a validateAgainst call: a normal return, or one thrown Error
\* with its message; call names the function and errors is its errors array
\* at the end of the call
Pending == [state |-> "pending", call |-> "", message |-> "", errors |-> <<>>]

Returned(call) == [state |-> "returned", call |-> call, message |-> "", errors |-> <<>>]

Thrown(call, message, errors) ==
    [state |-> "thrown", call |-> call, message |-> message, errors |-> errors]

validateAgainstDtd(root, expectedRoot, dtd) ==
    LET errors == walk(root, "", expectedRoot, dtd)
    IN IF Len(errors) > 0
       THEN Thrown("validateAgainstDtd",
                   "DTD validation failed:\n" \o Join(ErrorLines(errors), "\n"), errors)
       ELSE Returned("validateAgainstDtd")

(***************************************************************************)
(* The XSD validator (xsd_validator.ts).  An XsdElementDef keeps its       *)
(* attributes Map as the sequence of its entries in insertion order; an    *)
(* XsdAttrDef without fixed / enum has hasFixed / hasEnum FALSE.           *)
(***************************************************************************)
XsdAttrDef(n, use, hasFixed, fixed, hasEnum, enum) ==
    [name |-> n, use |-> use, hasFixed |-> hasFixed, fixed |-> fixed,
     hasEnum |-> hasEnum, enum |-> enum]

\* allowedChildren: a Set of names, "ANY" or "EMPTY"
AllowedSet(names) == [kind |-> "SET", names |-> names]

AllowedAny == [kind |-> "ANY", names |-> {}]

AllowedEmpty == [kind |-> "EMPTY", names |-> {}]

XsdElementDef(n, content, attributes, mixed, allowAnyAttribute, allowedChildren) ==
    [name |-> n, content |-> content, attributes |-> attributes, mixed |-> mixed,
     allowAnyAttribute |-> allowAnyAttribute, allowedChildren |-> allowedChildren]

IGNORED_ATTR_PREFIXES == <<"xmlns", "xml:", "xsi:">>

COMPAT_ATTR_ALLOWLIST == [e \in {"topics", "a"} |->
                            IF e = "topics" THEN {"web-path"} ELSE {"type", "target"}]

RELAXED_CHILD_ORDER_WithP == {"topic", "section-starting-page", "links", "snippet", "p"}

RELAXED_CHILD_ORDER == {"topic", "section-starting-page", "links", "snippet"}

isCompatAttrAllowed(elName, attrName) ==
    elName \in DOMAIN COMPAT_ATTR_ALLOWLIST /\ attrName \in COMPAT_ATTR_ALLOWLIST[elName]

XsdIsIgnoredAttr(a) ==
    \E k \in 1..Len(IGNORED_ATTR_PREFIXES) : StartsWith(a, IGNORED_ATTR_PREFIXES[k])

\* def.attributes.has(a)
HasAttrDef(def, a) == \E k \in 1..Len(def.attributes) : def.attributes[k].name = a

\* def.attributes.get(a)
AttrDefOf(def, a) ==
    CHOOSE d \in { def.attributes[k] : k \in 1..Len(def.attributes) } : d.name = a

xsdValidateAttrs(el, elementName, def, here) ==
    LET attrsObj == el.attributes
        notIgnored(a) == ~XsdIsIgnoredAttr(a)
        present == SelectSeq(AttrNames(attrsObj), notIgnored)
        unknown(a) ==
            IF ~HasAttrDef(def, a) /\ ~isCompatAttrAllowed(elementName, a)
               THEN << ValidationError(here,
                          "Unknown attribute \"" \o a \o "\" on <" \o elementName \o ">") >>
               ELSE <<>>
        required(decl) ==
            IF decl.use = "required" /\ ~InAttrs(decl.name, attrsObj)
               THEN << ValidationError(here, MissingRequiredMsg(decl.name, elementName)) >>
               ELSE <<>>
        constrained(a) ==
            IF ~HasAttrDef(def, a) THEN <<>>
            ELSE LET decl == AttrDefOf(def, a)
                     value == AttrValue(attrsObj, a)
                 IN (IF decl.hasFixed /\ value # decl.fixed
                       THEN << ValidationError(here,
                                  "Attribute \"" \o a \o "\" is fixed to \"" \o decl.fixed
                                     \o "\", got \"" \o value \o "\"") >>
                       ELSE <<>>)
                    \o (IF decl.hasEnum /\ ~SeqHas(decl.enum, value)
                          THEN << ValidationError(here,
                                     "Attribute \"" \o a \o "\" must be one of ("
                                        \o Join(decl.enum, "|") \o "), got \"" \o value \o "\"") >>
                          ELSE <<>>)
    IN (IF ~def.allowAnyAttribute
          THEN Flatten([k \in 1..Len(present) |-> unknown(present[k])], 1)
          ELSE <<>>)
       \o Flatten([k \in 1..Len(def.attributes) |-> required(def.attributes[k])], 1)
       \o Flatten([k \in 1..Len(present) |-> constrained(present[k])], 1)

resolveElementDef(n, xsd) ==
    IF n \notin DOMAIN xsd.elements THEN [found |-> FALSE, def |-> <<>>]
    ELSE IF n \notin DOMAIN xsd.substitutionGroupFor
         THEN [found |-> TRUE, def |-> xsd.elements[n]]
         ELSE LET head == xsd.substitutionGroupFor[n]
              IN [found |-> TRUE,
                  def |-> IF head \in DOMAIN xsd.elements THEN xsd.elements[head]
                          ELSE xsd.elements[n]]

childrenAllowedBySet(allowed, kidNames) ==
    CASE allowed.kind = "ANY" -> TRUE
      [] allowed.kind = "EMPTY" -> Len(kidNames) = 0
      [] OTHER -> \A k \in 1..Len(kidNames) : kidNames[k] \in allowed.names

NotInclude(n) == n # "include"

filterCompatChildren(kidNames) == SelectSeq(kidNames, NotInclude)

\* counts is countChildren(kidNames), read through the names themselves
countForName(n, kidNames, xsd) ==
    CountOf(kidNames, n)
    + Cardinality({ k \in 1..Len(kidNames) :
                      kidNames[k] # n /\ kidNames[k] \in MapGet(xsd.substitutionGroups, n, {}) })

RECURSIVE requiredChildrenSatisfied(_, _, _)
requiredChildrenSatisfied(particle, kidNames, xsd) ==
    CASE particle.kind \in {"empty", "any"} -> TRUE
      [] particle.kind = "element" ->
            countForName(particle.name, kidNames, xsd) >= particle.occurs.min
      [] particle.kind \in {"sequence", "all"} ->
            \/ particle.occurs.min = 0
            \/ \A k \in 1..Len(particle.items) :
                  requiredChildrenSatisfied(particle.items[k], kidNames, xsd)
      [] particle.kind = "choice" ->
            \/ particle.occurs.min = 0
            \/ \E k \in 1..Len(particle.items) :
                  requiredChildrenSatisfied(particle.items[k], kidNames, xsd)
      [] particle.kind = "groupRef" ->
            \/ particle.occurs.min = 0
            \/ particle.name \notin DOMAIN xsd.groups
            \/ requiredChildrenSatisfied(xsd.groups[particle.name], kidNames, xsd)

\* the signs U+221E (infinity) and U+2205 (empty set) of the messages, which a
\* string of the model cannot hold, are written in ASCII
InfinitySign == "oo"

EmptySetSign == "(/)"

formatOccurs(o) ==
    IF o.min = 1 /\ o.max = 1 THEN ""
    ELSE "{" \o ToString(o.min) \o ".."
             \o (IF o.max = Unbounded THEN InfinitySign ELSE ToString(o.max)) \o "}"

RECURSIVE formatParticle(_)
formatParticle(p) ==
    LET parts == [k \in 1..Len(p.items) |-> formatParticle(p.items[k])]
        core == CASE p.kind = "empty" -> EmptySetSign
                  [] p.kind = "any" -> "<any>"
                  [] p.kind = "element" -> "<" \o p.name \o ">"
                  [] p.kind = "groupRef" -> "group(" \o p.name \o ")"
                  [] p.kind = "sequence" -> "seq(" \o Join(parts, ", ") \o ")"
                  [] p.kind = "choice" -> "choice(" \o Join(parts, " | ") \o ")"
                  [] p.kind = "all" -> "all(" \o Join(parts, ", ") \o ")"
    IN core \o formatOccurs(p.occurs)

xsdValidateChildren(el, elementName, def, here, xsd) ==
    LET kidNames == KidNames(el)
        compatKidNames == filterCompatChildren(kidNames)
        ok == \/ matchesParticle(def.content, kidNames, xsd)
              \/ /\ Len(compatKidNames) # Len(kidNames)
                 /\ matchesParticle(def.content, compatKidNames, xsd)
        relaxed == /\ elementName \in RELAXED_CHILD_ORDER
                   /\ childrenAllowedBySet(def.allowedChildren, compatKidNames)
                   /\ requiredChildrenSatisfied(def.content, compatKidNames, xsd)
    IN (IF nonWhitespaceText(el) /\ ~def.mixed
          THEN << ValidationError(here, "<" \o elementName \o "> does not allow character data") >>
          ELSE <<>>)
       \o (IF ok \/ relaxed THEN <<>>
           ELSE << ValidationError(here,
                      "Child elements do not match XSD model: expected "
                         \o formatParticle(def.content) \o ", got ("
                         \o Join(kidNames, ", ") \o ")") >>)

RECURSIVE xsdWalk(_, _, _, _)
xsdWalk(el, path, expectedRoot, xsd) ==
    LET name == localName(el.name)
        here == IF path # "" THEN path \o "/" \o name ELSE "/" \o name
        kids == childElements(el)
        r == resolveElementDef(name, xsd)
    IN (IF path = "" /\ name # expectedRoot
          THEN << ValidationError(here, "Root must be <" \o expectedRoot \o ">") >>
          ELSE <<>>)
       \o (IF ~r.found
             THEN << ValidationError(here, "Element <" \o name \o "> not declared in XSD") >>
             ELSE xsdValidateAttrs(el, name, r.def, here)
                  \o xsdValidateChildren(el, name, r.def, here, xsd))
       \o Flatten([k \in 1..Len(kids) |-> xsdWalk(kids[k], here, expectedRoot, xsd)], 1)

validateAgainstXsd(root, expectedRoot, xsd) ==
    LET errors == xsdWalk(root, "", expectedRoot, xsd)
    IN IF Len(errors) > 0
       THEN Thrown("validateAgainstXsd",
                   "XSD validation failed:\n" \o Join(ErrorLines(errors), "\n"), errors)
       ELSE Returned("validateAgainstXsd")

(***************************************************************************)
(* The inputs of the DTD matcher.                                          *)
(***************************************************************************)
ChildNames == {"a", "b"}

DtdLeaves == { DtdName(n, o) : n \in ChildNames, o \in DtdOccurs } \cup { DtdPcdata("1") }

DtdGroups(itemSeqs) ==
    { DtdSeq(its, o) : its \in itemSeqs, o \in DtdOccurs }
    \cup { DtdChoice(its, o) : its \in itemSeqs, o \in DtdOccurs }

\* groups nested in groups: an inner group of two plain items, alone or
\* beside one plain item
DtdInnerLeaves == { DtdName("a", "1"), DtdName("a", "?"), DtdName("b", "1") }

DtdInnerGroups == DtdGroups([1..2 -> DtdInnerLeaves])

DtdNested ==
    DtdGroups({ <<g>> : g \in DtdInnerGroups }
              \cup { <<g, l>> : g \in DtdInnerGroups, l \in DtdInnerLeaves }
              \cup { <<l, g>> : g \in DtdInnerGroups, l \in DtdInnerLeaves })

\* (a,b*,c?) and the four child lists of the documentation's example
DtdExample == DtdSeq(<<DtdName("a", "1"), DtdName("b", "*"), DtdName("c", "?")>>, "1")

DtdExampleChildren ==
    { <<"a">>, <<"a", "b", "b", "c">>, <<"b", "a">>, <<"a", "c", "b">> }

DtdModels ==
    DtdLeaves \cup DtdGroups(SeqsFromTo(DtdLeaves, 1, MaxItems)) \cup DtdNested
        \cup {DtdExample}

DtdInit ==
    /\ dtdModel \in DtdModels
    /\ dtdChildren \in SeqsUpTo(ChildNames, MaxChildren) \cup DtdExampleChildren
    /\ dtdOk = "pending"

DtdIdle ==
    /\ dtdModel = DtdPcdata("1")
    /\ dtdChildren = <<>>
    /\ dtdOk = "pending"

MatchesDtdModel ==
    /\ dtdOk = "pending"
    /\ dtdOk' = Verdict(matchesDtdModel(dtdModel, dtdChildren))
    /\ UNCHANGED <<dtdModel, dtdChildren>>
    /\ UNCHANGED <<xsdVars, valVars, sanVars, parseVars, bldVars, renVars, strVars, synVars, sizeVars>>

(***************************************************************************)
(* The inputs of the XSD matcher.  The root particle's occurs is parsed    *)
(* from a minOccurs / maxOccurs attribute pair by occursFromEl; the claims *)
(* are about occurs with max >= min.                                       *)
(***************************************************************************)
MinAttrs == {AttrAbsent} \cup { AttrNum(n) : n \in 0..MaxOccursAttr }
MaxAttrs == {AttrAbsent, AttrUnbounded} \cup { AttrNum(n) : n \in 0..MaxOccursAttr }

OccursWellFormed(o) == o.max = Unbounded \/ o.max >= o.min

WithOccurs(p, o) == [p EXCEPT !.occurs = o]

\* the occurs of the items inside a group
XsdItemOccurs == { Occ(1, 1), Occ(0, Unbounded) }

XsdItemLeaves ==
    { XsdElement("a", o) : o \in XsdItemOccurs }
    \cup { XsdElement("b", Occ(1, 1)), XsdAny(Occ(1, 1)) }

XsdGroups(itemSeqs, occs) ==
    { XsdSequence(its, o) : its \in itemSeqs, o \in occs }
    \cup { XsdChoice(its, o) : its \in itemSeqs, o \in occs }

XsdInnerLeaves == { XsdElement("a", Occ(1, 1)), XsdElement("a", Occ(0, 1)),
                    XsdElement("b", Occ(1, 1)) }

XsdInnerGroups ==
    XsdGroups([1..2 -> XsdInnerLeaves], { Occ(1, 1), Occ(0, Unbounded), Occ(1, 2) })

\* xs:all groups of element items
XsdAllItems ==
    { XsdElement(n, o) : n \in {"a", "b"},
                         o \in {Occ(1, 1), Occ(0, 1), Occ(1, Unbounded)} }

XsdAllExample ==
    XsdAll(<<XsdElement("a", Occ(1, 1)), XsdElement("b", Occ(0, 1))>>, Occ(1, 1))

XsdAllExampleChildren ==
    { <<"a">>, <<"b", "a">>, <<"a", "b">>, <<"a", "a">>, <<"c">> }

\* the shapes of the root particle; its occurs is set from the attributes
XsdShapes ==
    { XsdElement("a", Occ(1, 1)), XsdElement("b", Occ(1, 1)), XsdAny(Occ(1, 1)) }
    \cup XsdGroups(SeqsFromTo(XsdItemLeaves, 1, MaxItems), {Occ(1, 1)})
    \cup XsdGroups({ <<g>> : g \in XsdInnerGroups }, {Occ(1, 1)})
    \cup { XsdAll(its, Occ(1, 1)) : its \in SeqsFromTo(XsdAllItems, 1, 2) }

NoSubstitutions == [groups |-> <<>>, substitutionGroups |-> <<>>]

XsdIdle ==
    /\ xsdParticle = emptyParticle
    /\ xsdChildren = <<>>
    /\ xsdIndex = NoSubstitutions
    /\ xsdMinAttr = AttrAbsent
    /\ xsdMaxAttr = AttrAbsent
    /\ xsdOk = "pending"

XsdInit ==
    /\ xsdMinAttr \in MinAttrs
    /\ xsdMaxAttr \in MaxAttrs
    /\ OccursWellFormed(occursFromEl(xsdMinAttr, xsdMaxAttr))
    /\ xsdParticle \in
          { WithOccurs(p, occursFromEl(xsdMinAttr, xsdMaxAttr)) : p \in XsdShapes }
    \* XSD lets an xs:all group occur at most once
    /\ xsdParticle.kind = "all" => xsdMaxAttr \in {AttrAbsent, AttrNum(1)}
    /\ xsdChildren \in SeqsUpTo(ChildNames, MaxXsdChildren) \cup XsdAllExampleChildren
    /\ xsdIndex = NoSubstitutions
    /\ xsdOk = "pending"

MatchesParticle ==
    /\ xsdOk = "pending"
    /\ xsdOk' = matchOutcome(xsdParticle, xsdChildren, xsdIndex)
    /\ UNCHANGED <<xsdParticle, xsdChildren, xsdIndex, xsdMinAttr, xsdMaxAttr>>
    /\ UNCHANGED <<dtdVars, valVars, sanVars, parseVars, bldVars, renVars, strVars, synVars, sizeVars>>

(***************************************************************************)
(* The inputs of the XSD matcher with named groups: the groups G and H of  *)
(* the index hold particles that refer to G or H, after an element (each   *)
(* turn of the cycle takes a child), before it, beside it in a choice, or  *)
(* alone; the root particle refers to G.                                   *)
(***************************************************************************)
MaxGroupChildren == 2

GroupNames == {"G", "H"}

GroupBodies ==
    { XsdSequence(<< XsdElement("a", Occ(1, 1)) >>, Occ(1, 1)),
      XsdSequence(<< XsdElement("b", Occ(1, 1)) >>, Occ(1, 1)) }
    \cup UNION { { XsdSequence(<< XsdElement("a", Occ(1, 1)), XsdGroupRef(t, Occ(0, 1)) >>, Occ(1, 1)),
                    XsdSequence(<< XsdGroupRef(t, Occ(1, 1)), XsdElement("a", Occ(1, 1)) >>, Occ(1, 1)),
                    XsdChoice(<< XsdElement("a", Occ(1, 1)), XsdGroupRef(t, Occ(1, 1)) >>, Occ(1, 1)),
                    XsdSequence(<< XsdGroupRef(t, Occ(0, 1)) >>, Occ(1, 1)) } : t \in GroupNames }

GroupIndexes ==
    { [groups |-> [n \in GroupNames |-> IF n = "G" THEN g ELSE h], substitutionGroups |-> <<>>] :
          g \in GroupBodies, h \in GroupBodies }

GroupRoots ==
    { XsdGroupRef("G", Occ(1, 1)), XsdGroupRef("G", Occ(0, Unbounded)),
      XsdSequence(<< XsdGroupRef("G", Occ(1, 1)), XsdElement("b", Occ(1, 1)) >>, Occ(1, 1)) }

XsdGroupsInit ==
    /\ xsdMinAttr = AttrAbsent
    /\ xsdMaxAttr = AttrAbsent
    /\ xsdParticle \in GroupRoots
    /\ xsdChildren \in SeqsUpTo(ChildNames, MaxGroupChildren)
    /\ xsdIndex \in GroupIndexes
    /\ xsdOk = "pending"

(***************************************************************************)
(* The inputs of the XSD matcher with a substitution group: element y is   *)
(* declared with substitutionGroup x (buildXsdIndex records head -> members *)
(* and member -> head).                                                    *)
(***************************************************************************)
SubstNames == {"x", "y", "a"}

SubstIndex == [groups |-> <<>>, substitutionGroups |-> [h \in {"x"} |-> {"y"}]]

SubstItems ==
    { XsdElement(n, o) : n \in {"x", "a"}, o \in {Occ(1, 1), Occ(0, 1)} }

SubstShapes ==
    { XsdSequence(its, Occ(1, 1)) : its \in SeqsFromTo(SubstItems, 1, 2) }
    \cup { XsdChoice(its, Occ(1, 1)) : its \in SeqsFromTo(SubstItems, 1, 2) }
    \cup { XsdAll(its, Occ(1, 1)) : its \in SeqsFromTo(SubstItems, 1, 2) }

XsdSubstInit ==
    /\ xsdMinAttr = AttrAbsent
    /\ xsdMaxAttr = AttrAbsent
    /\ xsdParticle \in SubstShapes
    /\ xsdChildren \in SeqsUpTo(SubstNames, MaxXsdChildren)
    /\ xsdIndex = SubstIndex
    /\ xsdOk = "pending"

(***************************************************************************)
(* Building a DTD index and validating a document: the steps of            *)
(* Parser.parse that use the schema.                                       *)
(***************************************************************************)
Unbuilt == [state |-> "unbuilt", elements |-> <<>>]

EmptyXsdIndex ==
    [elements |-> <<>>, groups |-> <<>>, substitutionGroups |-> <<>>,
     substitutionGroupFor |-> <<>>]

ValIdle ==
    /\ valDecls = <<>>
    /\ valDtd = Unbuilt
    /\ valXsd = EmptyXsdIndex
    /\ valRoot = ElementNode("", <<>>, <<>>)
    /\ valExpectedRoot = ""
    /\ valOutcome = Pending

BuildDtdIndex ==
    /\ valDtd.state = "unbuilt"
    /\ valDtd' = LET r == buildDtdIndex(valDecls)
                 IN [state |-> IF r.ok THEN "built" ELSE "failed", elements |-> r.elements]
    /\ UNCHANGED <<valDecls, valXsd, valRoot, valExpectedRoot, valOutcome>>
    /\ UNCHANGED <<dtdVars, xsdVars, sanVars, parseVars, bldVars, renVars, strVars, synVars, sizeVars>>

ValidateAgainstDtd ==
    /\ valDtd.state = "built"
    /\ valOutcome.state = "pending"
    /\ valOutcome' = validateAgainstDtd(valRoot, valExpectedRoot, valDtd)
    /\ UNCHANGED <<valDecls, valDtd, valXsd, valRoot, valExpectedRoot>>
    /\ UNCHANGED <<dtdVars, xsdVars, sanVars, parseVars, bldVars, renVars, strVars, synVars, sizeVars>>

ValidateAgainstXsd ==
    /\ valOutcome.state = "pending"
    /\ valOutcome' = validateAgainstXsd(valRoot, valExpectedRoot, valXsd)
    /\ UNCHANGED <<valDecls, valDtd, valXsd, valRoot, valExpectedRoot>>
    /\ UNCHANGED <<dtdVars, xsdVars, sanVars, parseVars, bldVars, renVars, strVars, synVars, sizeVars>>

(***************************************************************************)
(* The inputs of a validation against a mixed content model: element p is  *)
(* declared with the model text, its possible children b, i and s with     *)
(* (#PCDATA).                                                              *)
(***************************************************************************)
MaxMixedNames == 2

MaxMixedKids == 3

MixedNamePool == {"b", "i"}

\* the text ( #PCDATA | n1 | ... | nk )* with sp between its tokens
MixedText(ns, sp) ==
    "(" \o sp \o "#PCDATA" \o Join([k \in 1..Len(ns) |-> sp \o "|" \o sp \o ns[k]], "")
        \o sp \o ")*"

MixedTexts ==
    { MixedText(ns, sp) : ns \in SeqsUpTo(MixedNamePool, MaxMixedNames), sp \in {"", " "} }

OtherModelTexts ==
    {"(#PCDATA)", "(b|i)*", "(#PCDATA|b)", "(#PCDATA|b)+", "(b,i)", "(b|#PCDATA)*",
     "ANY", "EMPTY", "(#PCDATA|)*", "(#PCDATA|b*)*"}

MixedDecls(text) ==
    << ElementDecl("p", text), ElementDecl("b", "(#PCDATA)"),
       ElementDecl("i", "(#PCDATA)"), ElementDecl("s", "(#PCDATA)") >>

MixedKids ==
    { ElementNode(n, <<>>, <<>>) : n \in {"b", "i", "s", "x:b"} }
    \cup { TextNode("t"), TextNode(" ") }

DtdMixedInit ==
    /\ valDecls \in { MixedDecls(t) : t \in MixedTexts \cup OtherModelTexts }
    /\ valDtd = Unbuilt
    /\ valXsd = EmptyXsdIndex
    /\ valRoot \in { ElementNode("p", <<>>, kids) : kids \in SeqsUpTo(MixedKids, MaxMixedKids) }
    /\ valExpectedRoot = "p"
    /\ valOutcome = Pending

(***************************************************************************)
(* The content models of buildDtdIndex: up to MaxTerms terms, a ',' or a   *)
(* '|' between two of them; a term is a name or a group, and the groups    *)
(* hold one separator, or both, at one level or at several.                *)
(***************************************************************************)
MaxTerms == 2

ModelTerms ==
    {"a", "b*", "(a,b)", "(a|b)+", "(a,b|c)", "( a | (b,c) , d )", "((a|b),(c|d))",
     "(#PCDATA|a)*", "(#PCDATA|a,b)"}

ModelSeparators == {",", " | "}

RECURSIVE TermsText(_, _, _)
\* the terms from the k-th on, each after its separator
TermsText(terms, seps, k) ==
    IF k > Len(terms) THEN ""
    ELSE (IF k = 1 THEN "" ELSE seps[k - 1]) \o terms[k] \o TermsText(terms, seps, k + 1)

ModelTexts ==
    UNION { { TermsText(terms, seps, 1) : terms \in [1..n -> ModelTerms],
                                          seps \in [1..(n - 1) -> ModelSeparators] } :
            n \in 1..MaxTerms }

DtdModelsInit ==
    /\ valDecls \in { << ElementDecl("p", t) >> : t \in ModelTexts }
    /\ valDtd = Unbuilt
    /\ valXsd = EmptyXsdIndex
    /\ valRoot = ElementNode("", <<>>, <<>>)
    /\ valExpectedRoot = ""
    /\ valOutcome = Pending

(***************************************************************************)
(* The inputs of the index builder: up to MaxDecls declarations in any     *)
(* order, for the elements a and b: ELEMENT declarations (a also with a    *)
(* second one) and ATTLIST declarations, one of which declares the         *)
(* attribute x of a again, with another default.                           *)
(***************************************************************************)
MaxDecls == 3

DeclPool ==
    { ElementDecl("a", "(b,c)*"), ElementDecl("a", "(#PCDATA)"), ElementDecl("b", "EMPTY"),
      AttlistDecl("a", << AttrDecl("x", "CDATA", <<>>, "#REQUIRED", "") >>),
      AttlistDecl("a", << AttrDecl("x", "CDATA", <<>>, "#IMPLIED", ""),
                          AttrDecl("y", "CDATA", <<>>, "#REQUIRED", "") >>),
      AttlistDecl("a", << AttrDecl("z", "ENUM", <<"u", "v">>, "#REQUIRED", "") >>),
      AttlistDecl("b", << AttrDecl("x", "CDATA", <<>>, "#FIXED", "1") >>) }

DtdDeclsInit ==
    /\ valDecls \in SeqsUpTo(DeclPool, MaxDecls)
    /\ valDtd = Unbuilt
    /\ valXsd = EmptyXsdIndex
    /\ valRoot = ElementNode("", <<>>, <<>>)
    /\ valExpectedRoot = ""
    /\ valOutcome = Pending

(***************************************************************************)
(* The inputs of a validation of a document of up to three levels: root r  *)
(* holds one a and any number of b; a needs the attribute req; element c   *)
(* is declared nowhere.                                                    *)
(***************************************************************************)
MaxDocKids == 2

RequiredAttrPool == {"id", "constructor"}

ValDecls(req) ==
    << ElementDecl("r", "(a,b*)"), ElementDecl("a", "(#PCDATA)"), ElementDecl("b", "EMPTY"),
       AttlistDecl("a", << AttrDecl(req, "CDATA", <<>>, "#REQUIRED", "") >>),
       AttlistDecl("r", << AttrDecl("kind", "ENUM", <<"x", "y">>, "#IMPLIED", "") >>) >>

ValXsd(req) ==
    [elements |->
        [n \in {"r", "a", "b"} |->
            CASE n = "r" ->
                   XsdElementDef("r",
                      XsdSequence(<<XsdElement("a", Occ(1, 1)), XsdElement("b", Occ(0, Unbounded))>>,
                                  Occ(1, 1)),
                      << XsdAttrDef("kind", "optional", FALSE, "", TRUE, <<"x", "y">>) >>,
                      FALSE, FALSE, AllowedSet({"a", "b"}))
              [] n = "a" ->
                   XsdElementDef("a", emptyParticle,
                      << XsdAttrDef(req, "required", FALSE, "", FALSE, <<>>) >>,
                      TRUE, FALSE, AllowedEmpty)
              [] n = "b" ->
                   XsdElementDef("b", emptyParticle, <<>>, FALSE, FALSE, AllowedEmpty)],
     groups |-> <<>>, substitutionGroups |-> <<>>, substitutionGroupFor |-> <<>>]

\* the elements and texts of the third level
DocLevel2 == { ElementNode("a", <<>>, <<>>), TextNode("t") }

\* the elements of the second level
DocLevel1 ==
    { ElementNode("a", at, ks) : at \in {<<>>, <<Attr("id", "1")>>},
                                 ks \in SeqsUpTo(DocLevel2, 1) }
    \cup { ElementNode("b", <<>>, <<>>) }
    \cup { ElementNode("c", <<>>, ks) : ks \in SeqsUpTo(DocLevel2, 1) }

DocRoots ==
    { ElementNode(n, at, ks) : n \in {"r", "x"},
                               at \in {<<>>, <<Attr("kind", "z")>>},
                               ks \in SeqsUpTo(DocLevel1, MaxDocKids) }

(***************************************************************************)
(* The inputs of a validation of the order of the children: the root is    *)
(* declared with the sequence of one a and at most one b, under a name of  *)
(* RELAXED_CHILD_ORDER or under the name p; its children are a, b and      *)
(* include, all three declared empty.                                      *)
(***************************************************************************)
MaxOrderKids == 3

OrderRootNames == {"p", "links", "snippet"}

OrderKidNames == {"a", "b", "include"}

OrderContent ==
    XsdSequence(<<XsdElement("a", Occ(1, 1)), XsdElement("b", Occ(0, 1))>>, Occ(1, 1))

OrderXsd ==
    [elements |->
        [n \in OrderRootNames \cup OrderKidNames |->
            IF n \in OrderRootNames
            THEN XsdElementDef(n, OrderContent, <<>>, FALSE, FALSE, AllowedSet({"a", "b"}))
            ELSE XsdElementDef(n, emptyParticle, <<>>, FALSE, FALSE, AllowedEmpty)],
     groups |-> <<>>, substitutionGroups |-> <<>>, substitutionGroupFor |-> <<>>]

OrderRoots ==
    { ElementNode(n, <<>>, ks) :
         n \in OrderRootNames,
         ks \in SeqsUpTo({ ElementNode(k, <<>>, <<>>) : k \in OrderKidNames }, MaxOrderKids) }

XsdOrderInit ==
    /\ valDecls = <<>>
    /\ valDtd = Unbuilt
    /\ valXsd = OrderXsd
    /\ valRoot \in OrderRoots
    /\ valExpectedRoot = valRoot.name
    /\ valOutcome = Pending

ValidateInit ==
    /\ \E req \in RequiredAttrPool : valDecls = ValDecls(req) /\ valXsd = ValXsd(req)
    /\ valDtd = Unbuilt
    /\ valRoot \in DocRoots
    /\ valExpectedRoot = "r"
    /\ valOutcome = Pending

(***************************************************************************)
(* The XML sanitizer (xast_xml.ts): preSanitize and its stages.            *)
(*                                                                         *)
(* The strings of the model hold ASCII only, and cannot hold a back-tick.  *)
(* U+0000, the back-tick and three characters outside ASCII are written    *)
(* with ASCII characters that no stage of the sanitizer treats specially   *)
(* and that the inputs use for nothing else.                               *)
(***************************************************************************)
NUL == "^"

\* U+0060, the back-tick of a Markdown fence
Backtick == "|"

\* U+00A0, standing for every Unicode space separator
NBSP == "%"

\* U+200B, standing for the zero-width marks other than U+FEFF
ZWSP == "$"

\* U+FEFF
BOM == "@"

\* the arrow U+2192 in the details handed to onChange
Arrow == "->"

CharsOf(s) == { SubSeq(s, k, k) : k \in 1..Len(s) }

LowerAlphabet == "abcdefghijklmnopqrstuvwxyz"

UpperAlphabet == "ABCDEFGHIJKLMNOPQRSTUVWXYZ"

DecimalDigits == "0123456789"

Letters == CharsOf(LowerAlphabet) \cup CharsOf(UpperAlphabet)

Digits == CharsOf(DecimalDigits)

HexDigits == Digits \cup CharsOf("abcdefABCDEF")

\* the characters isAlphaNum accepts, which are also those of /[\w:.\-]/
AlphaNumChars == Letters \cup Digits \cup {"_", ":", "-", "."}

isAlphaNum(ch) == ch \in AlphaNumChars

\* the characters of /\s/ among those the model can write
JsSpace == {" ", "\t", "\n", "\r", "\f", NBSP, BOM}

\* A loop of the source that reads a string one character at a time is
\* written here by the runs it reads: the model finds where the run of
\* characters that the loop treats alike ends, and takes the run at once.

\* the end of the run of characters of set that starts at i
spanEnd(s, set, i) ==
    IF i >= Len(s) THEN i
    ELSE CHOOSE k \in i..Len(s) :
             /\ k = Len(s) \/ CharAt(s, k) \notin set
             /\ \A m \in i..(k - 1) : CharAt(s, m) \in set

\* the first position from i on that holds a character of set; Len(s) when
\* there is none
nextIn(s, set, i) ==
    IF i >= Len(s) THEN Len(s)
    ELSE CHOOSE k \in i..Len(s) :
             /\ k = Len(s) \/ CharAt(s, k) \in set
             /\ \A m \in i..(k - 1) : CharAt(s, m) \notin set

startsWithAt(s, i, marker) == StrSlice(s, i, i + Len(marker)) = marker

\* the first position from i on where marker starts; Len(s) when there is none
nextAt(s, marker, i) ==
    IF i >= Len(s) THEN Len(s)
    ELSE CHOOSE k \in i..Len(s) :
             /\ k = Len(s) \/ startsWithAt(s, k, marker)
             /\ \A m \in i..(k - 1) : ~startsWithAt(s, m, marker)

\* s.indexOf(marker, i) for a marker that is not empty; -1 when there is none
indexOf(s, marker, i) == IF nextAt(s, marker, i) >= Len(s) THEN -1 ELSE nextAt(s, marker, i)

toLowerChar(c) ==
    IF c \in CharsOf(UpperAlphabet)
    THEN CharAt(LowerAlphabet, IndexOfFrom(UpperAlphabet, c, 0))
    ELSE c

RECURSIVE toLowerFrom(_, _)
RECURSIVE toLowerAt(_, _, _)
\* s.slice(i).toLowerCase(), k being the next upper-case letter
toLowerAt(s, i, k) ==
    IF k >= Len(s) THEN StrFrom(s, i)
    ELSE StrSlice(s, i, k) \o toLowerChar(CharAt(s, k)) \o toLowerFrom(s, k + 1)

toLowerFrom(s, i) == toLowerAt(s, i, nextIn(s, CharsOf(UpperAlphabet), i))

\* s.toLowerCase()
toLowerCase(s) == toLowerFrom(s, 0)

\* xs.map((x) => x.toLowerCase())
lowerAll(xs) == [k \in 1..Len(xs) |-> toLowerCase(xs[k])]

RECURSIVE replaceAllFrom(_, _, _, _)
RECURSIVE replaceAllAt(_, _, _, _, _)
\* s.slice(i).replace(/pat/g, by) for a literal pat, k being its next match
replaceAllAt(s, pat, by, i, k) ==
    IF k >= Len(s) THEN StrFrom(s, i)
    ELSE StrSlice(s, i, k) \o by \o replaceAllFrom(s, pat, by, k + Len(pat))

replaceAllFrom(s, pat, by, i) == replaceAllAt(s, pat, by, i, nextAt(s, pat, i))

(***************************************************************************)
(* stripCodeFences.  The opening expression                                *)
(*   /^\s*(?:(```+|~~~+)[^\n]*\n|``[^\n]*\n)/                              *)
(* matches white space, a fence of two back-ticks or three tildes at       *)
(* least, and the rest of that line with its line break.  The closing      *)
(* expressions /\n(?:```+|~~~+)\s*$/ and /\n``\s*$/ match, leftmost first, *)
(* a line break, a fence and nothing but white space up to the end.        *)
(***************************************************************************)
stripOpeningFence(s, j) ==
    IF /\ startsWithAt(s, j, Backtick \o Backtick) \/ startsWithAt(s, j, "~~~")
       /\ indexOf(s, "\n", j) >= 0
    THEN StrFrom(s, indexOf(s, "\n", j) + 1)
    ELSE s

closingFenceAt(s, p) ==
    /\ CharAt(s, p) = "\n"
    /\ \E c \in {Backtick, "~"} :
          /\ spanEnd(s, {c}, p + 1) >= p + 4
          /\ spanEnd(s, JsSpace, spanEnd(s, {c}, p + 1)) >= Len(s)

shortFenceAt(s, p) ==
    /\ startsWithAt(s, p, "\n" \o Backtick \o Backtick)
    /\ spanEnd(s, JsSpace, p + 3) >= Len(s)

\* where the leftmost match of the closing expression starts; Len(s) when
\* there is none
closingFenceFrom(s) ==
    CHOOSE p \in 0..Len(s) :
        /\ p = Len(s) \/ closingFenceAt(s, p)
        /\ \A m \in 0..(p - 1) : ~closingFenceAt(s, m)

shortFenceFrom(s) ==
    CHOOSE p \in 0..Len(s) :
        /\ p = Len(s) \/ shortFenceAt(s, p)
        /\ \A m \in 0..(p - 1) : ~shortFenceAt(s, m)

stripClosingFence(s) == StrSlice(s, 0, closingFenceFrom(s))

stripShortFence(s) == StrSlice(s, 0, shortFenceFrom(s))

stripCodeFences(input) ==
    stripShortFence(stripClosingFence(stripOpeningFence(input, spanEnd(input, JsSpace, 0))))

(***************************************************************************)
(* stripProlog.                                                            *)
(***************************************************************************)
RECURSIVE prologLoop(_)
RECURSIVE prologDoctype(_, _, _, _)
RECURSIVE prologAfterSpace(_, _)

\* the <!DOCTYPE branch, with gt = s.indexOf(">") and br = s.indexOf("[")
prologDoctype(s, advanced, gt, br) ==
    IF gt >= 0 /\ (br < 0 \/ br > gt) THEN prologLoop(StrFrom(s, gt + 1))
    ELSE IF br >= 0 /\ indexOf(s, "]>", 0) >= 0
    THEN prologLoop(StrFrom(s, indexOf(s, "]>", 0) + 2))
    ELSE IF advanced THEN prologLoop(s)
    ELSE s

\* one turn of the loop once the leading white space is gone
prologAfterSpace(s, advanced) ==
    IF StartsWith(s, "<?xml") /\ indexOf(s, "?>", 0) >= 0
    THEN prologLoop(StrFrom(s, indexOf(s, "?>", 0) + 2))
    ELSE IF StartsWith(s, "<!DOCTYPE")
    THEN prologDoctype(s, advanced, indexOf(s, ">", 0), indexOf(s, "[", 0))
    ELSE IF advanced THEN prologLoop(s)
    ELSE s

prologLoop(s) ==
    prologAfterSpace(StrFrom(s, spanEnd(s, JsSpace, 0)), spanEnd(s, JsSpace, 0) > 0)

stripProlog(input) ==
    prologLoop(IF CharAt(input, 0) = BOM THEN StrFrom(input, 1) ELSE input)

(***************************************************************************)
(* repairInvalidComments and scrubInvalidXmlCharsInText.                   *)
(***************************************************************************)
RECURSIVE repairLoop(_, _, _)
RECURSIVE repairAtOpen(_, _, _, _)
RECURSIVE repairAtClose(_, _, _, _)

repairAtClose(s, out, open, close) ==
    IF close < 0 THEN out \o StrFrom(s, open)
    ELSE repairLoop(s, close + 3,
             out \o "<!--" \o replaceAllFrom(StrSlice(s, open + 4, close), "--", "- -", 0)
                 \o "-->")

repairAtOpen(s, i, out, open) ==
    IF open < 0 THEN out \o StrFrom(s, i)
    ELSE repairAtClose(s, out \o StrSlice(s, i, open), open, indexOf(s, "-->", open + 4))

repairLoop(s, i, out) ==
    IF i >= Len(s) THEN out ELSE repairAtOpen(s, i, out, indexOf(s, "<!--", i))

repairInvalidComments(s) == repairLoop(s, 0, "")

\* the C0 controls that are removed, among the characters the model can write
ScrubbedChars == {NUL, "\f"}

RECURSIVE scrubFrom(_, _)
RECURSIVE scrubAt(_, _, _)
\* the scrubbed s.slice(i), k being the next character to remove
scrubAt(s, i, k) ==
    IF k >= Len(s) THEN StrFrom(s, i) ELSE StrSlice(s, i, k) \o scrubFrom(s, k + 1)

scrubFrom(s, i) == scrubAt(s, i, nextIn(s, ScrubbedChars, i))

scrubInvalidXmlCharsInText(s) == scrubFrom(s, 0)

(***************************************************************************)
(* maskProtectedSegments, and the restore function it returns.             *)
(***************************************************************************)
token(k) == NUL \o "__HOLE_" \o ToString(k) \o "__" \o NUL

Masked(text, holes) == [text |-> text, holes |-> holes]

RECURSIVE maskLoop(_, _, _, _)
RECURSIVE maskHole(_, _, _, _, _)
RECURSIVE maskSegment(_, _, _, _)
RECURSIVE maskAtLt(_, _, _, _, _)

\* holes.push(s.slice(lt, end)); out += token(holes.length - 1); i = end
maskHole(s, out, holes, lt, end) ==
    maskLoop(s, end, out \o token(Len(holes)), Append(holes, StrSlice(s, lt, end)))

maskSegment(s, out, holes, lt) ==
    IF startsWithAt(s, lt, "<![CDATA[") /\ indexOf(s, "]]>", lt + 9) >= 0
    THEN maskHole(s, out, holes, lt, indexOf(s, "]]>", lt + 9) + 3)
    ELSE IF startsWithAt(s, lt, "<?") /\ indexOf(s, "?>", lt + 2) >= 0
    THEN maskHole(s, out, holes, lt, indexOf(s, "?>", lt + 2) + 2)
    ELSE IF startsWithAt(s, lt, "<!--") /\ indexOf(s, "-->", lt + 4) >= 0
    THEN maskHole(s, out, holes, lt, indexOf(s, "-->", lt + 4) + 3)
    ELSE maskLoop(s, lt + 1, out \o "<", holes)

maskAtLt(s, i, out, holes, lt) ==
    IF lt < 0 THEN Masked(out \o StrFrom(s, i), holes)
    ELSE maskSegment(s, out \o StrSlice(s, i, lt), holes, lt)

maskLoop(s, i, out, holes) ==
    IF i >= Len(s) THEN Masked(out, holes)
    ELSE maskAtLt(s, i, out, holes, indexOf(s, "<", i))

maskProtectedSegments(s) == maskLoop(s, 0, "", <<>>)

RECURSIVE NumberOf(_)
\* Number(n) of a string of decimal digits
NumberOf(n) ==
    IF n = "" THEN 0
    ELSE NumberOf(StrSlice(n, 0, Len(n) - 1)) * 10
         + IndexOfFrom(DecimalDigits, CharAt(n, Len(n) - 1), 0)

\* where the placeholder /\u0000__HOLE_(\d+)__\u0000/ that starts at i ends;
\* -1 when none starts there
holeEnd(t, i) ==
    IF /\ startsWithAt(t, i, NUL \o "__HOLE_")
       /\ spanEnd(t, Digits, i + 8) > i + 8
       /\ startsWithAt(t, spanEnd(t, Digits, i + 8), "__" \o NUL)
    THEN spanEnd(t, Digits, i + 8) + 3
    ELSE -1

\* `${holes[k]}`: a hole that was never pushed reads undefined
holeText(holes, k) == IF k < Len(holes) THEN holes[k + 1] ELSE "undefined"

\* the first position from i on where a placeholder starts; Len(t) when
\* there is none
nextHole(t, i) ==
    IF i >= Len(t) THEN Len(t)
    ELSE CHOOSE k \in i..Len(t) :
             /\ k = Len(t) \/ holeEnd(t, k) >= 0
             /\ \A m \in i..(k - 1) : holeEnd(t, m) < 0

RECURSIVE restoreFrom(_, _, _)
RECURSIVE restoreAt(_, _, _, _)
\* the restored t.slice(i), k being the next placeholder
restoreAt(t, holes, i, k) ==
    IF k >= Len(t) THEN StrFrom(t, i)
    ELSE StrSlice(t, i, k)
         \o holeText(holes, NumberOf(StrSlice(t, k + 8, holeEnd(t, k) - 3)))
         \o restoreFrom(t, holes, holeEnd(t, k))

restoreFrom(t, holes, i) == restoreAt(t, holes, i, nextHole(t, i))

restore(holes, t) == restoreFrom(t, holes, 0)

(***************************************************************************)
(* normalizeUnicodeSpacesInsideTags.  quote is "" for null.                *)
(***************************************************************************)
UNICODE_SPACE_IN_TAG == {NBSP}

ZERO_WIDTH_MARKS == {ZWSP, BOM}

isLikelyTagStart(s, i) == CharAt(s, i + 1) \in Letters \cup {"_", "/", "?"}

\* the first "<" from i on that isLikelyTagStart accepts; Len(s) when there
\* is none
nextTagStart(s, i) ==
    IF i >= Len(s) THEN Len(s)
    ELSE CHOOSE k \in i..Len(s) :
             /\ k = Len(s) \/ (CharAt(s, k) = "<" /\ isLikelyTagStart(s, k))
             /\ \A m \in i..(k - 1) : ~(CharAt(s, m) = "<" /\ isLikelyTagStart(s, m))

\* the characters that end a run of plain characters inside a tag
TagSpaceStops == {"\"", "'", ">"} \cup UNICODE_SPACE_IN_TAG \cup ZERO_WIDTH_MARKS

RECURSIVE tagSpaceLoop(_, _, _, _, _)
RECURSIVE tagSpaceOutside(_, _, _, _)
RECURSIVE tagSpaceQuoted(_, _, _, _, _)
RECURSIVE tagSpaceInside(_, _, _, _, _)

\* outside a tag: k is the next tag start
tagSpaceOutside(s, i, out, k) ==
    IF k >= Len(s) THEN out \o StrFrom(s, i)
    ELSE tagSpaceLoop(s, k + 1, TRUE, "", out \o StrSlice(s, i, k + 1))

\* inside a quoted value: k is where the quote closes
tagSpaceQuoted(s, i, quote, out, k) ==
    IF k >= Len(s) THEN out \o StrFrom(s, i)
    ELSE tagSpaceLoop(s, k + 1, TRUE, "", out \o StrSlice(s, i, k + 1))

\* inside a tag, outside quotes: k is the next character of TagSpaceStops
tagSpaceInside(s, i, out, k, ch) ==
    IF k >= Len(s) THEN out \o StrFrom(s, i)
    ELSE IF ch \in {"\"", "'"} THEN tagSpaceLoop(s, k + 1, TRUE, ch, out \o StrSlice(s, i, k + 1))
    ELSE IF ch = ">" THEN tagSpaceLoop(s, k + 1, FALSE, "", out \o StrSlice(s, i, k + 1))
    ELSE IF ch \in UNICODE_SPACE_IN_TAG
    THEN tagSpaceLoop(s, k + 1, TRUE, "", out \o StrSlice(s, i, k) \o " ")
    ELSE tagSpaceLoop(s, k + 1, TRUE, "", out \o StrSlice(s, i, k))

tagSpaceLoop(s, i, inTag, quote, out) ==
    IF i >= Len(s) THEN out
    ELSE IF ~inTag THEN tagSpaceOutside(s, i, out, nextTagStart(s, i))
    ELSE IF quote # "" THEN tagSpaceQuoted(s, i, quote, out, nextIn(s, {quote}, i))
    ELSE tagSpaceInside(s, i, out, nextIn(s, TagSpaceStops, i),
             CharAt(s, nextIn(s, TagSpaceStops, i)))

normalizeUnicodeSpacesInsideTags(s) == tagSpaceLoop(s, 0, FALSE, "", "")

(***************************************************************************)
(* normalizeEntitiesAndAmpersands.  The entity map is the plain object     *)
(* { ...BUILTIN_ENTITIES, ...o.namedEntities }: a list of entries, a later *)
(* entry overriding an earlier one of the same name, and behind them the   *)
(* properties of Object.prototype.  A throw is a result with threw = TRUE  *)
(* and the message as its value; log holds the calls of onChange.          *)
(***************************************************************************)
XML5 == {"lt", "gt", "amp", "quot", "apos"}

Entity(n, code) == [name |-> n, code |-> code]

BUILTIN_ENTITIES ==
    << Entity("nbsp", 160), Entity("thinsp", 8201), Entity("ensp", 8194),
       Entity("emsp", 8195), Entity("shy", 173), Entity("ndash", 8211),
       Entity("mdash", 8212), Entity("hellip", 8230), Entity("middot", 183),
       Entity("bull", 8226), Entity("copy", 169), Entity("reg", 174),
       Entity("trade", 8482), Entity("euro", 8364), Entity("pound", 163),
       Entity("yen", 165), Entity("sect", 167), Entity("para", 182),
       Entity("deg", 176), Entity("sup1", 185), Entity("sup2", 178),
       Entity("sup3", 179), Entity("laquo", 171), Entity("raquo", 187),
       Entity("lsquo", 8216), Entity("rsquo", 8217), Entity("ldquo", 8220),
       Entity("rdquo", 8221), Entity("larr", 8592), Entity("uarr", 8593),
       Entity("rarr", 8594), Entity("darr", 8595), Entity("harr", 8596),
       Entity("times", 215), Entity("divide", 247) >>

HasOwnEntity(entityMap, n) == \E k \in 1..Len(entityMap) : entityMap[k].name = n

OwnEntityCode(entityMap, n) ==
    LET last == CHOOSE k \in 1..Len(entityMap) :
                    /\ entityMap[k].name = n
                    /\ \A m \in (k + 1)..Len(entityMap) : entityMap[m].name # n
    IN entityMap[last].code

\* entityMap[lower] != null
entityDefined(entityMap, lower) ==
    HasOwnEntity(entityMap, lower) \/ lower \in ObjectPrototypeKeys

\* `${Object.prototype[k]}`
PrototypeText(k) ==
    IF k = "__proto__" THEN "[object Object]"
    ELSE "function " \o (IF k = "constructor" THEN "Object" ELSE k) \o "() { [native code] }"

\* `${entityMap[lower]}` when entityMap[lower] != null
entityCodeText(entityMap, lower) ==
    IF HasOwnEntity(entityMap, lower) THEN ToString(OwnEntityCode(entityMap, lower))
    ELSE PrototypeText(lower)

StageResult(threw, value, log) == [threw |-> threw, value |-> value, log |-> log]

Change(kind, detail) == [kind |-> kind, detail |-> detail]

RECURSIVE entityLoop(_, _, _, _, _, _)
RECURSIVE numericRef(_, _, _, _, _, _, _, _)
RECURSIVE namedEntity(_, _, _, _, _, _, _, _)
RECURSIVE namedRef(_, _, _, _, _, _, _)

\* the numeric branch: the digits are s[start..j)
numericRef(s, entityPolicy, entityMap, i, out, log, start, j) ==
    IF j > start /\ CharAt(s, j) = ";"
    THEN entityLoop(s, entityPolicy, entityMap, j + 1, out \o StrSlice(s, i, j + 1), log)
    ELSE entityLoop(s, entityPolicy, entityMap, i + 1, out \o "&amp;", log)

\* the named branch once name is followed by ";" at j
namedEntity(s, entityPolicy, entityMap, out, log, j, name, lower) ==
    IF lower \in XML5
    THEN entityLoop(s, entityPolicy, entityMap, j + 1, out \o "&" \o lower \o ";", log)
    ELSE IF entityDefined(entityMap, lower)
    THEN entityLoop(s, entityPolicy, entityMap, j + 1,
             out \o "&#" \o entityCodeText(entityMap, lower) \o ";",
             Append(log, Change("entity",
                 "&" \o name \o ";" \o Arrow \o "&#" \o entityCodeText(entityMap, lower) \o ";")))
    ELSE IF entityPolicy = "error"
    THEN StageResult(TRUE, "[authord] Unknown named entity: &" \o name \o ";", log)
    ELSE entityLoop(s, entityPolicy, entityMap, j + 1, out \o "&amp;" \o name \o ";",
             Append(log, Change("entity-unknown",
                 "&" \o name \o ";" \o Arrow \o "&amp;" \o name \o ";")))

\* the named branch: /[A-Za-z]/.test(s[i + 1]) holds for a letter, and for
\* the undefined read past the end, whose text is "undefined"; j is where
\* the name ends
namedRef(s, entityPolicy, entityMap, i, out, log, j) ==
    IF (i + 1 >= Len(s) \/ CharAt(s, i + 1) \in Letters) /\ CharAt(s, j) = ";"
    THEN namedEntity(s, entityPolicy, entityMap, out, log, j,
             StrSlice(s, i + 1, j), toLowerCase(StrSlice(s, i + 1, j)))
    ELSE entityLoop(s, entityPolicy, entityMap, i + 1, out \o "&amp;", log)

entityLoop(s, entityPolicy, entityMap, i, out, log) ==
    IF i >= Len(s) THEN StageResult(FALSE, out, log)
    ELSE IF CharAt(s, i) # "&"
    THEN entityLoop(s, entityPolicy, entityMap, nextIn(s, {"&"}, i),
             out \o StrSlice(s, i, nextIn(s, {"&"}, i)), log)
    ELSE IF CharAt(s, i + 1) = "#"
    THEN IF CharAt(s, i + 2) \in {"x", "X"}
         THEN numericRef(s, entityPolicy, entityMap, i, out, log, i + 3,
                  spanEnd(s, HexDigits, i + 3))
         ELSE numericRef(s, entityPolicy, entityMap, i, out, log, i + 2,
                  spanEnd(s, Digits, i + 2))
    ELSE namedRef(s, entityPolicy, entityMap, i, out, log, spanEnd(s, AlphaNumChars, i + 2))

normalizeEntitiesAndAmpersands(s, entityPolicy, entityMap) ==
    entityLoop(s, entityPolicy, entityMap, 0, "", <<>>)

(***************************************************************************)
(* parseTagDetailed.  quote and lastNonWs are "" for null.                 *)
(***************************************************************************)
InvalidTag(lt) ==
    [valid |-> FALSE, end |-> lt + 1, qname |-> "", local |-> "",
     closing |-> FALSE, selfClosing |-> FALSE]

\* the last character of s[from..to) that is not white space; last when
\* there is none
lastNonWsIn(s, from, to, last) ==
    IF \A k \in from..(to - 1) : CharAt(s, k) \in JsSpace THEN last
    ELSE CharAt(s, CHOOSE k \in from..(to - 1) :
                       /\ CharAt(s, k) \notin JsSpace
                       /\ \A m \in (k + 1)..(to - 1) : CharAt(s, m) \in JsSpace)

RECURSIVE tagScan(_, _, _, _, _, _, _)
RECURSIVE tagScanAt(_, _, _, _, _, _, _)

\* outside quotes: k is the next quote, ">" or "<" from i on
tagScanAt(s, lt, closing, qname, i, lastNonWs, k) ==
    IF k >= Len(s) \/ CharAt(s, k) = "<" THEN InvalidTag(lt)
    ELSE IF CharAt(s, k) = ">"
    THEN [valid |-> TRUE, end |-> k + 1, qname |-> qname,
          local |-> toLowerCase(localName(qname)),
          closing |-> closing, selfClosing |-> lastNonWsIn(s, i, k, lastNonWs) = "/"]
    ELSE tagScan(s, lt, closing, qname, k + 1, CharAt(s, k), lastNonWsIn(s, i, k, lastNonWs))

\* the scan from the end of the name to the closing ">"
tagScan(s, lt, closing, qname, i, quote, lastNonWs) ==
    IF i >= Len(s) THEN InvalidTag(lt)
    ELSE IF quote # ""
    THEN IF nextIn(s, {quote}, i) >= Len(s) THEN InvalidTag(lt)
         ELSE tagScan(s, lt, closing, qname, nextIn(s, {quote}, i) + 1, "", lastNonWs)
    ELSE tagScanAt(s, lt, closing, qname, i, lastNonWs, nextIn(s, {"\"", "'", ">", "<"}, i))

\* the name that starts at i
tagName(s, lt, closing, i) ==
    IF CharAt(s, i) \notin Letters \cup {"_"} THEN InvalidTag(lt)
    ELSE tagScan(s, lt, closing, StrSlice(s, i, spanEnd(s, AlphaNumChars, i)),
             spanEnd(s, AlphaNumChars, i), "", "")

parseTagDetailed(s, lt) ==
    IF lt + 1 >= Len(s) THEN InvalidTag(lt)
    ELSE IF CharAt(s, lt + 1) = "/" THEN tagName(s, lt, TRUE, lt + 2)
    ELSE tagName(s, lt, FALSE, lt + 1)

(***************************************************************************)
(* applyContainerPoliciesStream.  The sets built from the name lists are   *)
(* the lower-cased lists.  An option of the merged options o is a value    *)
(* or undefined.                                                           *)
(***************************************************************************)
Def(v) == [defined |-> TRUE, value |-> v]

Undef == [defined |-> FALSE]

\* the truth value a condition takes an option of boolean type for
Truthy(x) == x.defined /\ x.value

Ctx(kind, nameLocal, innerStack) ==
    [kind |-> kind, nameLocal |-> nameLocal, innerStack |-> innerStack]

\* top(), and the last entry of an innerStack
Last(stack) == stack[Len(stack)]

Pop(stack) == SubSeq(stack, 1, Len(stack) - 1)

\* the four sets built from the name lists, with the three flags
ContainerSets(o) ==
    [richNames |-> lowerAll(o.richTextContainers),
     inlineNames |-> lowerAll(o.inlineTextContainers),
     allowInline |-> lowerAll(o.allowedInlineTags),
     allowRich |-> lowerAll(o.allowedRichTags),
     forceTextInContainers |-> o.forceTextInContainers,
     escapeUnknownTagMentionsInText |-> o.escapeUnknownTagMentionsInText,
     escapeBareAnglesInText |-> o.escapeBareAnglesInText]

isContainerOpen(o, local) == SeqHas(o.richNames, local) \/ SeqHas(o.inlineNames, local)

containerKindOf(o, local) == IF SeqHas(o.richNames, local) THEN "rich" ELSE "inline"

allowedForKind_AlwaysRich(o, kind) == o.allowRich

allowedForKind(o, kind) == IF kind = "rich" THEN o.allowRich ELSE o.allowInline

\* "&lt;" + tagText.slice(1, -1).replace(/</g, "&lt;").replace(/>/g, "&gt;") + "&gt;"
escapeTag(tagText) ==
    "&lt;"
    \o replaceAllFrom(replaceAllFrom(StrSlice(tagText, 1, Len(tagText) - 1), "<", "&lt;", 0),
           ">", "&gt;", 0)
    \o "&gt;"

\* "&lt;" + tagText.slice(1, -1) + "&gt;"
escapeStray(tagText) == "&lt;" \o StrSlice(tagText, 1, Len(tagText) - 1) \o "&gt;"

\* the stack with the innerStack of its top context replaced
WithInner(ctxStack, innerStack) ==
    [ctxStack EXCEPT ![Len(ctxStack)].innerStack = innerStack]

\* the innerStack after a namespaced tag
namespacedInner(innerStack, tag) ==
    IF ~tag.closing /\ ~tag.selfClosing THEN Append(innerStack, tag.local)
    ELSE IF tag.closing /\ Len(innerStack) > 0 /\ Last(innerStack) = tag.local
    THEN Pop(innerStack)
    ELSE innerStack

RECURSIVE streamLoop(_, _, _, _, _)
RECURSIVE streamInside(_, _, _, _, _, _, _)
RECURSIVE streamTag(_, _, _, _, _, _)

\* step 3: a tag inside the container current = top()
streamInside(s, o, out, ctxStack, tag, tagText, current) ==
    IF o.forceTextInContainers
    THEN streamLoop(s, o, tag.end, out \o escapeTag(tagText), ctxStack)
    ELSE IF indexOf(tag.qname, ":", 0) >= 0
    THEN streamLoop(s, o, tag.end, out \o tagText,
             WithInner(ctxStack, namespacedInner(current.innerStack, tag)))
    ELSE IF SeqHas(allowedForKind(o, current.kind), tag.local)
    THEN IF tag.closing
         THEN IF Len(current.innerStack) > 0 /\ Last(current.innerStack) = tag.local
              THEN streamLoop(s, o, tag.end, out \o tagText,
                       WithInner(ctxStack, Pop(current.innerStack)))
              ELSE streamLoop(s, o, tag.end, out \o escapeStray(tagText), ctxStack)
         ELSE streamLoop(s, o, tag.end, out \o tagText,
                  IF tag.selfClosing THEN ctxStack
                  ELSE WithInner(ctxStack, Append(current.innerStack, tag.local)))
    ELSE IF o.escapeUnknownTagMentionsInText
    THEN streamLoop(s, o, tag.end, out \o escapeTag(tagText), ctxStack)
    ELSE streamLoop(s, o, tag.end, out \o tagText, ctxStack)

\* the "<" at i with tag = parseTagDetailed(s, i)
streamTag(s, o, i, out, ctxStack, tag) ==
    IF ~tag.valid
    THEN streamLoop(s, o, i + 1,
             out \o (IF Len(ctxStack) > 0 /\ o.escapeBareAnglesInText THEN "&lt;" ELSE "<"),
             ctxStack)
    ELSE IF ~tag.closing /\ isContainerOpen(o, tag.local)
    THEN streamLoop(s, o, tag.end, out \o StrSlice(s, i, tag.end),
             IF tag.selfClosing THEN ctxStack
             ELSE Append(ctxStack, Ctx(containerKindOf(o, tag.local), tag.local, <<>>)))
    ELSE IF tag.closing /\ Len(ctxStack) > 0 /\ tag.local = Last(ctxStack).nameLocal
    THEN streamLoop(s, o, tag.end, out \o StrSlice(s, i, tag.end), Pop(ctxStack))
    ELSE IF Len(ctxStack) > 0
    THEN streamInside(s, o, out, ctxStack, tag, StrSlice(s, i, tag.end), Last(ctxStack))
    ELSE streamLoop(s, o, tag.end, out \o StrSlice(s, i, tag.end), ctxStack)

streamLoop(s, o, i, out, ctxStack) ==
    IF i >= Len(s) THEN out
    ELSE IF CharAt(s, i) # "<"
    THEN streamLoop(s, o, nextIn(s, {"<"}, i), out \o StrSlice(s, i, nextIn(s, {"<"}, i)),
             ctxStack)
    ELSE streamTag(s, o, i, out, ctxStack, parseTagDetailed(s, i))

(***************************************************************************)
(* One turn of the while loop of applyContainerPoliciesStream: from the    *)
(* cursor i to the cursor after the token at i (a run of text, a "<" that  *)
(* starts no tag, or a tag), with the output and the stack after it.       *)
(***************************************************************************)
Stepped(i, out, ctxStack) == [i |-> i, out |-> out, ctxStack |-> ctxStack]

\* ctxStack after step 1: a container tag that is not self-closing pushes
containerPush_SelfClosingToo(o, ctxStack, tag) ==
    Append(ctxStack, Ctx(containerKindOf(o, tag.local), tag.local, <<>>))

containerPush(o, ctxStack, tag) ==
    IF tag.selfClosing THEN ctxStack
    ELSE Append(ctxStack, Ctx(containerKindOf(o, tag.local), tag.local, <<>>))

\* an allowed closing tag, copied whatever the innerStack holds
allowedClosing_AlwaysCopied(out, ctxStack, tag, tagText, current) ==
    Stepped(tag.end, out \o tagText, ctxStack)

\* an allowed closing tag: copied when it closes the top of the innerStack
allowedClosing(out, ctxStack, tag, tagText, current) ==
    IF Len(current.innerStack) > 0 /\ Last(current.innerStack) = tag.local
    THEN Stepped(tag.end, out \o tagText, WithInner(ctxStack, Pop(current.innerStack)))
    ELSE Stepped(tag.end, out \o escapeStray(tagText), ctxStack)

\* step 3 with the prefix checked before the force flag
stepInside_PrefixFirst(o, out, ctxStack, tag, tagText, current) ==
    IF indexOf(tag.qname, ":", 0) >= 0
    THEN Stepped(tag.end, out \o tagText,
             WithInner(ctxStack, namespacedInner(current.innerStack, tag)))
    ELSE IF o.forceTextInContainers
    THEN Stepped(tag.end, out \o escapeTag(tagText), ctxStack)
    ELSE IF SeqHas(allowedForKind(o, current.kind), tag.local)
    THEN IF tag.closing
         THEN allowedClosing(out, ctxStack, tag, tagText, current)
         ELSE Stepped(tag.end, out \o tagText,
                  IF tag.selfClosing THEN ctxStack
                  ELSE WithInner(ctxStack, Append(current.innerStack, tag.local)))
    ELSE IF o.escapeUnknownTagMentionsInText
    THEN Stepped(tag.end, out \o escapeTag(tagText), ctxStack)
    ELSE Stepped(tag.end, out \o tagText, ctxStack)

\* step 3: a tag inside the container current = top()
stepInside(o, out, ctxStack, tag, tagText, current) ==
    IF o.forceTextInContainers
    THEN Stepped(tag.end, out \o escapeTag(tagText), ctxStack)
    ELSE IF indexOf(tag.qname, ":", 0) >= 0
    THEN Stepped(tag.end, out \o tagText,
             WithInner(ctxStack, namespacedInner(current.innerStack, tag)))
    ELSE IF SeqHas(allowedForKind(o, current.kind), tag.local)
    THEN IF tag.closing
         THEN allowedClosing(out, ctxStack, tag, tagText, current)
         ELSE Stepped(tag.end, out \o tagText,
                  IF tag.selfClosing THEN ctxStack
                  ELSE WithInner(ctxStack, Append(current.innerStack, tag.local)))
    ELSE IF o.escapeUnknownTagMentionsInText
    THEN Stepped(tag.end, out \o escapeTag(tagText), ctxStack)
    ELSE Stepped(tag.end, out \o tagText, ctxStack)

\* the "<" at i with tag = parseTagDetailed(s, i)
stepTag(s, o, i, out, ctxStack, tag) ==
    IF ~tag.valid
    THEN Stepped(i + 1,
             out \o (IF Len(ctxStack) > 0 /\ o.escapeBareAnglesInText THEN "&lt;" ELSE "<"),
             ctxStack)
    ELSE IF ~tag.closing /\ isContainerOpen(o, tag.local)
    THEN Stepped(tag.end, out \o StrSlice(s, i, tag.end), containerPush(o, ctxStack, tag))
    ELSE IF tag.closing /\ Len(ctxStack) > 0 /\ tag.local = Last(ctxStack).nameLocal
    THEN Stepped(tag.end, out \o StrSlice(s, i, tag.end), Pop(ctxStack))
    ELSE IF Len(ctxStack) > 0
    THEN stepInside(o, out, ctxStack, tag, StrSlice(s, i, tag.end), Last(ctxStack))
    ELSE Stepped(tag.end, out \o StrSlice(s, i, tag.end), ctxStack)

\* the body of the while loop; the characters up to the next "<" in one turn
streamStep(s, o, i, out, ctxStack) ==
    IF CharAt(s, i) # "<"
    THEN Stepped(nextIn(s, {"<"}, i), out \o StrSlice(s, i, nextIn(s, {"<"}, i)), ctxStack)
    ELSE stepTag(s, o, i, out, ctxStack, parseTagDetailed(s, i))

\* o.richTextContainers.map(...) and the three calls after it throw a
\* TypeError when the list is undefined
TypeErrorOfMap == "Cannot read properties of undefined (reading 'map')"

applyContainerPoliciesStream(s, o) ==
    IF \E k \in {"richTextContainers", "inlineTextContainers",
                 "allowedInlineTags", "allowedRichTags"} : ~o[k].defined
    THEN StageResult(TRUE, TypeErrorOfMap, <<>>)
    ELSE StageResult(FALSE,
             streamLoop(s,
                 ContainerSets(
                     [richTextContainers |-> o.richTextContainers.value,
                      inlineTextContainers |-> o.inlineTextContainers.value,
                      forceTextInContainers |-> Truthy(o.forceTextInContainers),
                      escapeUnknownTagMentionsInText |->
                          Truthy(o.escapeUnknownTagMentionsInText),
                      allowedInlineTags |-> o.allowedInlineTags.value,
                      allowedRichTags |-> o.allowedRichTags.value,
                      escapeBareAnglesInText |-> Truthy(o.escapeBareAnglesInText)]),
                 0, "", <<>>),
             <<>>)

(***************************************************************************)
(* preSanitize.  opts holds the keys the caller passes, each with a value  *)
(* or with undefined; the spread lets a key of opts replace the default    *)
(* even when it holds undefined.  onChange is "NOOP" or "recorder", a      *)
(* callback that records its calls.                                        *)
(***************************************************************************)
ALLOW_INLINE_DEFAULT ==
    << "a", "em", "strong", "b", "i", "u", "s", "code", "kbd", "var", "samp", "sub",
       "sup", "span", "small", "abbr", "cite", "q", "mark", "del", "ins", "br", "img",
       "tt", "emphasis", "format", "path", "control", "tooltip", "math", "icon",
       "ui-path", "shortcut" >>

ALLOW_RICH_DEFAULT ==
    ALLOW_INLINE_DEFAULT \o
    << "p", "pre", "ul", "ol", "li", "table", "thead", "tbody", "tfoot", "tr", "td",
       "th", "dl", "dt", "dd", "blockquote", "figure", "figcaption", "hr", "h1", "h2",
       "h3", "h4", "h5", "h6", "list", "deflist", "def", "tabs", "tab", "compare",
       "code-block", "video", "inline-frame", "resource", "property", "seealso",
       "category", "group", "links", "cards", "card", "spotlight", "description",
       "tldr", "primary", "secondary", "misc" >>

NOOP == "NOOP"

DEFAULTS ==
    [stripProlog |-> TRUE,
     fixInvalidComments |-> TRUE,
     scrubInvalidXmlChars |-> TRUE,
     normalizeUnicodeSpacesInTags |-> TRUE,
     entityPolicy |-> "convert",
     namedEntities |-> <<>>,
     richTextContainers |->
         << "documentation", "link-summary", "card-summary", "web-summary",
            "description", "tldr" >>,
     inlineTextContainers |-> << "p" >>,
     forceTextInContainers |-> FALSE,
     escapeUnknownTagMentionsInText |-> TRUE,
     allowedInlineTags |-> ALLOW_INLINE_DEFAULT,
     allowedRichTags |-> ALLOW_RICH_DEFAULT,
     escapeBareAnglesInText |-> TRUE,
     onChange |-> NOOP]

\* { ...DEFAULTS, ...opts }
MergedOptions(opts) ==
    [k \in DOMAIN DEFAULTS |-> IF k \in DOMAIN opts THEN opts[k] ELSE Def(DEFAULTS[k])]

\* { ...BUILTIN_ENTITIES, ...o.namedEntities }
EntitiesOf(o) ==
    BUILTIN_ENTITIES \o (IF o.namedEntities.defined THEN o.namedEntities.value ELSE <<>>)

\* o.entityPolicy as the entity stage compares it
PolicyOf(o) == IF o.entityPolicy.defined THEN o.entityPolicy.value ELSE "undefined"

\* how a call ended: with a returned string, or with a thrown error of the
\* given name whose message is the value; log holds what onChange recorded
SanPending == [state |-> "pending", call |-> "", value |-> "", error |-> "", log |-> <<>>]

SanReturned(call, value, log) ==
    [state |-> "returned", call |-> call, value |-> value, error |-> "", log |-> log]

SanThrown(call, error, message, log) ==
    [state |-> "thrown", call |-> call, value |-> message, error |-> error, log |-> log]

\* what the callback o.onChange ?? NOOP has recorded
Recorded(o, log) == IF o.onChange.defined /\ o.onChange.value = "recorder" THEN log ELSE <<>>

\* stage 5, after the container stage
sanitizeRestore(o, holes, log, stream) ==
    IF stream.threw THEN SanThrown("preSanitize", "TypeError", stream.value, Recorded(o, log))
    ELSE SanReturned("preSanitize", restore(holes, stream.value), Recorded(o, log))

\* stage 4, after the entity stage
sanitizeContainers(o, holes, ent) ==
    IF ent.threw THEN SanThrown("preSanitize", "Error", ent.value, Recorded(o, ent.log))
    ELSE sanitizeRestore(o, holes, ent.log, applyContainerPoliciesStream(ent.value, o))

\* stages 2a and 3, on the masked text
sanitizeMasked(o, masked) ==
    sanitizeContainers(o, masked.holes,
        normalizeEntitiesAndAmpersands(
            IF Truthy(o.normalizeUnicodeSpacesInTags)
            THEN normalizeUnicodeSpacesInsideTags(masked.text)
            ELSE masked.text,
            PolicyOf(o), EntitiesOf(o)))

\* stage 1: the prolog, comment and character scrubs, each under its flag
sanitizeScrubs(o, s0) ==
    (LET scrub(s) == IF Truthy(o.scrubInvalidXmlChars) THEN scrubInvalidXmlCharsInText(s) ELSE s
         repair(s) == IF Truthy(o.fixInvalidComments) THEN repairInvalidComments(s) ELSE s
         prolog(s) == IF Truthy(o.stripProlog) THEN stripProlog(s) ELSE s
     IN scrub(repair(prolog(s0))))

preSanitizeWith(o, xml) ==
    sanitizeMasked(o, maskProtectedSegments(sanitizeScrubs(o, stripCodeFences(xml))))

preSanitize(xml, opts) == preSanitizeWith(MergedOptions(opts), xml)

(***************************************************************************)
(* The sanitizer's calls.                                                  *)
(***************************************************************************)
SanIdle ==
    /\ sanSource = <<>>
    /\ sanXml = ""
    /\ sanOpts = <<>>
    /\ sanOutcome = SanPending
    /\ sanAgain = SanPending

PreSanitize ==
    /\ sanOutcome.state = "pending"
    /\ sanOutcome' = preSanitize(sanXml, sanOpts)
    /\ UNCHANGED <<sanSource, sanXml, sanOpts, sanAgain>>
    /\ UNCHANGED <<dtdVars, xsdVars, valVars, parseVars, bldVars, renVars, strVars, synVars, sizeVars>>

\* stage 3 on its own, called as preSanitize calls it
NormalizeEntitiesAndAmpersands ==
    /\ sanOutcome.state = "pending"
    /\ sanOutcome' =
           LET o == MergedOptions(sanOpts)
               r == normalizeEntitiesAndAmpersands(sanXml, PolicyOf(o), EntitiesOf(o))
           IN IF r.threw
              THEN SanThrown("normalizeEntitiesAndAmpersands", "Error", r.value, r.log)
              ELSE SanReturned("normalizeEntitiesAndAmpersands", r.value, r.log)
    /\ UNCHANGED <<sanSource, sanXml, sanOpts, sanAgain>>
    /\ UNCHANGED <<dtdVars, xsdVars, valVars, parseVars, bldVars, renVars, strVars, synVars, sizeVars>>

\* preSanitize(preSanitize(x, opts), opts): the second call, on the text the
\* first call returned
PreSanitizeAgain ==
    /\ sanOutcome.state = "returned"
    /\ sanAgain.state = "pending"
    /\ sanAgain' = preSanitize(sanOutcome.value, sanOpts)
    /\ UNCHANGED <<sanSource, sanXml, sanOpts, sanOutcome>>
    /\ UNCHANGED <<dtdVars, xsdVars, valVars, parseVars, bldVars, renVars, strVars, synVars, sizeVars>>

\* stage 1b on its own: repairInvalidComments(s)
RepairInvalidComments ==
    /\ sanOutcome.state = "pending"
    /\ sanOutcome' = SanReturned("repairInvalidComments", repairInvalidComments(sanXml), <<>>)
    /\ UNCHANGED <<sanSource, sanXml, sanOpts, sanAgain>>
    /\ UNCHANGED <<dtdVars, xsdVars, valVars, parseVars, bldVars, renVars, strVars, synVars, sizeVars>>

\* masked.restore(masked.text) with masked = maskProtectedSegments(s)
restoreMasked(masked) == restore(masked.holes, masked.text)

\* stages 2 and 5 with no stage between them
MaskAndRestore ==
    /\ sanOutcome.state = "pending"
    /\ sanOutcome' = SanReturned("maskProtectedSegments",
                          restoreMasked(maskProtectedSegments(sanXml)), <<>>)
    /\ UNCHANGED <<sanSource, sanXml, sanOpts, sanAgain>>
    /\ UNCHANGED <<dtdVars, xsdVars, valVars, parseVars, bldVars, renVars, strVars, synVars, sizeVars>>

(***************************************************************************)
(* The inputs of the container policy: a documentation element written as  *)
(* a tree of tags, so that every element is opened and closed in place.    *)
(* A node is a text, an element with its children, an empty-element tag,   *)
(* or a lone opening tag.  A name carries the local name it stands for.    *)
(***************************************************************************)
MaxSanKids == 2

SanName(q, local) == [q |-> q, local |-> local]

SanNode(shape, name, attrs, kids) ==
    [shape |-> shape, name |-> name, attrs |-> attrs, kids |-> kids]

SanTextNode(t) == SanNode("text", SanName(t, ""), "", <<>>)

SanElement(name, attrs, kids) == SanNode("element", name, attrs, kids)

SanEmptyTag(name) == SanNode("empty", name, "", <<>>)

SanLoneOpen(name) == SanNode("open", name, "", <<>>)

OpenTagOf(node) == "<" \o node.name.q \o node.attrs \o ">"

CloseTagOf(node) == "</" \o node.name.q \o ">"

EmptyTagOf(node) == "<" \o node.name.q \o "/>"

RECURSIVE TextOfNode(_)
RECURSIVE TextOfNodes(_, _)
\* the text of a tree
TextOfNode(node) ==
    CASE node.shape = "text" -> node.name.q
      [] node.shape = "empty" -> EmptyTagOf(node)
      [] node.shape = "open" -> OpenTagOf(node)
      [] node.shape = "element" ->
             OpenTagOf(node) \o TextOfNodes(node.kids, 1) \o CloseTagOf(node)

TextOfNodes(kids, k) ==
    IF k > Len(kids) THEN "" ELSE TextOfNode(kids[k]) \o TextOfNodes(kids, k + 1)

SanB == SanName("b", "b")

SanUl == SanName("ul", "ul")

SanUnknown == SanName("unknown", "unknown")

SanPrefixed == SanName("x:y", "y")

SanP == SanName("p", "p")

SanTldr == SanName("tldr", "tldr")

SanLeaves ==
    { SanTextNode("x"), SanEmptyTag(SanName("br", "br")), SanLoneOpen(SanUnknown) }

\* an element around a piece of text
SanAround(n) == SanElement(n, "", << SanTextNode("x") >>)

SanInner == SanLeaves \cup { SanAround(n) : n \in { SanB, SanUl, SanUnknown, SanPrefixed } }

\* an element around an element: a tag inside p, inside a second rich-text
\* container, and inside an allowed tag
SanOuter ==
    SanInner
    \cup { SanElement(SanP, "", << SanAround(n) >>) :
              n \in { SanB, SanUl, SanUnknown, SanPrefixed } }
    \cup { SanElement(SanTldr, "", << SanAround(n) >>) : n \in { SanUl, SanUnknown } }
    \cup { SanElement(SanUl, "", << SanAround(SanB) >>) }

SanDocumentation == SanName("documentation", "documentation")

\* the example of the specification, and a documentation element written
\* with a prefix, with attributes and with an upper-case name
SanExample ==
    SanElement(SanDocumentation, "",
        << SanTextNode("Hello "), SanElement(SanB, "", << SanTextNode("world") >>),
           SanTextNode(" "), SanElement(SanUnknown, "", << SanTextNode("x") >>) >>)

SanPrefixedExample ==
    SanElement(SanName("xs:documentation", "documentation"), " xml:lang=\"en\"",
        << SanElement(SanName("A", "a"), " href=\"u\"", << SanTextNode("x") >>),
           SanElement(SanUnknown, " t=\">\"", <<>>),
           SanElement(SanTldr, "",
               << SanElement(SanP, "",
                      << SanElement(SanName("table", "table"), "", <<>>) >>) >>) >>)

SanTrees ==
    { SanElement(SanDocumentation, "", kids) : kids \in SeqsUpTo(SanOuter, MaxSanKids) }
    \cup { SanExample, SanPrefixedExample }

SanContainersInit ==
    /\ sanSource \in SanTrees
    /\ sanXml = TextOfNode(sanSource)
    /\ sanOpts = <<>>
    /\ sanOutcome = SanPending
    /\ sanAgain = SanPending

(***************************************************************************)
(* The inputs of the entity stage: a text written as a list of tokens,     *)
(* each one a named reference, a well-formed numeric reference, another    *)
(* use of "&", or plain text.  No token starts with ";" or "#", so a       *)
(* token reads the same whatever follows it.                               *)
(***************************************************************************)
MaxEntityTokens == 3

EntityToken(kind, name, lower, text) ==
    [kind |-> kind, name |-> name, lower |-> lower, text |-> text]

\* a named reference, with its name in lower case
NamedToken(name, lower) == EntityToken("named", name, lower, "&" \o name \o ";")

OtherToken(kind, text) == EntityToken(kind, "", "", text)

EntityTokens ==
    { NamedToken("amp", "amp"), NamedToken("lt", "lt"), NamedToken("LT", "lt"),
      NamedToken("nbsp", "nbsp"), NamedToken("NBSP", "nbsp"),
      NamedToken("eacute", "eacute"), NamedToken("constructor", "constructor"),
      OtherToken("numeric", "&#160;"), OtherToken("numeric", "&#xA0;"),
      OtherToken("amp", "&"), OtherToken("amp", "&#;"), OtherToken("amp", "&1;"),
      OtherToken("amp", "&#12"), OtherToken("text", "Caf") }

RECURSIVE TextOfTokens(_, _)
TextOfTokens(tokens, k) ==
    IF k > Len(tokens) THEN "" ELSE tokens[k].text \o TextOfTokens(tokens, k + 1)

EntityPolicies == {"convert", "escape", "error"}

EntityTables == { <<>>, << Entity("eacute", 233) >> }

SanEntitiesInit ==
    /\ sanSource \in SeqsUpTo(EntityTokens, MaxEntityTokens)
    /\ sanXml = TextOfTokens(sanSource, 1)
    /\ \E p \in EntityPolicies, t \in EntityTables :
           sanOpts = [entityPolicy |-> Def(p), namedEntities |-> Def(t)]
    /\ sanOutcome = SanPending
    /\ sanAgain = SanPending

(***************************************************************************)
(* The inputs of preSanitize as a whole: a text written as a list of       *)
(* chunks, and the options of the call.  A chunk names the named entity    *)
(* it holds outside CDATA sections, comments and processing instructions,  *)
(* if it holds one.                                                        *)
(***************************************************************************)
MaxChunks == 2

Chunk(text, entity) == [text |-> text, entity |-> entity]

SanChunks ==
    { Chunk("&bogus;", "bogus"), Chunk("&eacute;", "eacute"), Chunk("&nbsp;", "nbsp"),
      Chunk("&amp;", "amp"), Chunk("<a b=\"&bogus;\">", "bogus"),
      Chunk("<!--&bogus;-->", ""), Chunk("<![CDATA[&bogus;]]>", ""),
      Chunk("<?pi &bogus;?>", ""), Chunk("<?xml version=\"1.0\"?>", ""),
      Chunk(Backtick \o Backtick \o Backtick \o "xml\n", ""), Chunk("<documentation>", ""), Chunk("</b>", ""),
      Chunk("& <", "") }

SanOptions ==
    { <<>>,
      [entityPolicy |-> Def("error")],
      [entityPolicy |-> Def("escape")],
      [entityPolicy |-> Undef],
      [entityPolicy |-> Def("error"), namedEntities |-> Def(<< Entity("eacute", 233) >>),
       onChange |-> Def("recorder")],
      [entityPolicy |-> Def("error"), namedEntities |-> Undef, onChange |-> Undef,
       stripProlog |-> Def(FALSE), fixInvalidComments |-> Undef,
       scrubInvalidXmlChars |-> Def(FALSE), normalizeUnicodeSpacesInTags |-> Undef],
      [richTextContainers |-> Def(<< "a" >>), inlineTextContainers |-> Def(<<>>),
       allowedRichTags |-> Def(<<>>), allowedInlineTags |-> Def(<<>>),
       forceTextInContainers |-> Def(TRUE), escapeBareAnglesInText |-> Undef,
       escapeUnknownTagMentionsInText |-> Undef],
      [richTextContainers |-> Undef],
      [entityPolicy |-> Def("error"), allowedRichTags |-> Undef] }

RECURSIVE TextOfChunks(_, _)
TextOfChunks(chunks, k) ==
    IF k > Len(chunks) THEN "" ELSE chunks[k].text \o TextOfChunks(chunks, k + 1)

SanitizeInit ==
    /\ sanSource \in SeqsUpTo(SanChunks, MaxChunks)
    /\ sanXml = TextOfChunks(sanSource, 1)
    /\ sanOpts \in SanOptions
    /\ sanOutcome = SanPending
    /\ sanAgain = SanPending

(***************************************************************************)
(* The inputs of the repeated call: texts of up to MaxTwiceChunks chunks,  *)
(* among them a comment that holds three hyphens in a row, a code fence,   *)
(* a prolog, entities, a container with an unknown tag and a bare angle.   *)
(***************************************************************************)
MaxTwiceChunks == 2

Fence == Backtick \o Backtick \o Backtick

SanTwiceChunks ==
    { "<!--a---b-->", "<!--a--b-->", Fence \o "xml\n", "\n" \o Fence, "<?xml version=\"1.0\"?>",
      "&bogus;", "&nbsp;", "&constructor;", "& <", "<documentation><unknown>x</documentation>",
      "<a" \o NBSP \o "b=\"1\">", "<![CDATA[&x;]]>", " " }

SanTwiceOptions ==
    { <<>>,
      [entityPolicy |-> Def("escape")],
      [fixInvalidComments |-> Def(FALSE), stripProlog |-> Def(FALSE)] }

RECURSIVE ConcatAll(_, _)
ConcatAll(texts, k) == IF k > Len(texts) THEN "" ELSE texts[k] \o ConcatAll(texts, k + 1)

SanTwiceInit ==
    /\ sanSource \in SeqsUpTo(SanTwiceChunks, MaxTwiceChunks)
    /\ sanXml = ConcatAll(sanSource, 1)
    /\ sanOpts \in SanTwiceOptions
    /\ sanOutcome = SanPending
    /\ sanAgain = SanPending

(***************************************************************************)
(* The inputs of the single stages: texts of up to MaxStageChunks chunks,  *)
(* among them the three kinds of protected segment, comments with two and  *)
(* with three hyphens in a row, and a text shaped like a placeholder, which*)
(* reaches the masking scan when scrubInvalidXmlChars is off.              *)
(***************************************************************************)
MaxStageChunks == 2

SanStageChunks ==
    { "a", "<!--c-->", "<?pi x?>", "<![CDATA[<b>&x;]]>", token(0), "<!--a---b-->",
      "<!--a--b-->", "<p>" }

SanStageOptions == { <<>>, [scrubInvalidXmlChars |-> Def(FALSE)] }

SanStagesInit ==
    /\ sanSource \in SeqsUpTo(SanStageChunks, MaxStageChunks)
    /\ sanXml = ConcatAll(sanSource, 1)
    /\ sanOpts \in SanStageOptions
    /\ sanOutcome = SanPending
    /\ sanAgain = SanPending

(***************************************************************************)
(* Well-formed documents without container markup: what may stand before   *)
(* the root element, then an element a with up to MaxWfKids children.      *)
(* None of them holds a named entity other than the five XML entities or   *)
(* a Unicode space inside a tag, so neither normalization applies.         *)
(***************************************************************************)
MaxWfKids == 2

WfBefore == { "", "<?xml version=\"1.0\"?>", "\n", "<!DOCTYPE a>", "<!--c-->" }

WfKids ==
    { "x", "<b c=\"d>e\"/>", "<x:y>z</x:y>", "&amp;&#160;", "<!--c-->", "<?pi --?>",
      "<![CDATA[<!--x--y-->]]>", "<![CDATA[<p>]]>" }

WfDocument(beforeRoot, kids) == [beforeRoot |-> beforeRoot, kids |-> kids]

TextOfWf(doc) ==
    doc.beforeRoot \o (IF doc.kids = <<>> THEN "<a/>" ELSE "<a>" \o ConcatAll(doc.kids, 1) \o "</a>")

SanWellFormedInit ==
    /\ sanSource \in { WfDocument(b, kids) : b \in WfBefore, kids \in SeqsUpTo(WfKids, MaxWfKids) }
    /\ sanXml = TextOfWf(sanSource)
    /\ sanOpts = <<>>
    /\ sanOutcome = SanPending
    /\ sanAgain = SanPending

(***************************************************************************)
(* The XSD index builder (xsd_index.ts): buildXsdIndex over the tree of    *)
(* the schema text.  A Map is a sequence of entries in insertion order;    *)
(* the caches that the resolvers fill are threaded through their results   *)
(* together with the value returned.  A call chain deeper than the stack   *)
(* of the engine ends the build with a RangeError.                         *)
(***************************************************************************)
\* e.attributes?.[k], for the attribute names the builder asks for
attr(e, k) ==
    IF \E j \in 1..Len(e.attributes) : e.attributes[j].name = k
    THEN Def(AttrValue(e.attributes, k)) ELSE Undef

\* x ?? d
Coalesce(x, d) == IF x.defined THEN x.value ELSE d

isEl(n, ln) == n.type = "element" /\ (ln = "" \/ localName(n.name) = ln)

Entry(k, v) == [key |-> k, value |-> v]

MapHas(m, k) == \E j \in 1..Len(m) : m[j].key = k

MapAt(m, k) == (CHOOSE e \in { m[j] : j \in 1..Len(m) } : e.key = k).value

\* Map.set: a key that is there keeps its place
MapSet(m, k, v) ==
    IF MapHas(m, k) THEN [j \in 1..Len(m) |-> IF m[j].key = k THEN Entry(k, v) ELSE m[j]]
    ELSE Append(m, Entry(k, v))

RECURSIVE MapSetAll(_, _, _)
\* for (const [k, v] of from) m.set(k, v)
MapSetAll(m, from, j) ==
    IF j > Len(from) THEN m ELSE MapSetAll(MapSet(m, from[j].key, from[j].value), from, j + 1)

MapKeys(m) == [j \in 1..Len(m) |-> m[j].key]

\* the text of an occurs attribute as occursFromEl reads it
OccursAttr(a) ==
    IF ~a.defined THEN AttrAbsent
    ELSE IF a.value = "unbounded" THEN AttrUnbounded
    ELSE IF a.value # "" /\ \A j \in 0..(Len(a.value) - 1) : CharAt(a.value, j) \in CharsOf(DecimalDigits)
    THEN AttrNum(NumberOf(a.value))
    ELSE AttrOther

\* occursFromEl(e) of an element
occursOf(e) == occursFromEl(OccursAttr(attr(e, "minOccurs")), OccursAttr(attr(e, "maxOccurs")))

ParticleNames == {"sequence", "choice", "all", "group", "element", "any"}

RECURSIVE findFirstParticleChild(_)
RECURSIVE findFirstParticleIn(_, _)

\* the loop of findFirstParticleChild over host.children
findFirstParticleIn(kids, j) ==
    IF j > Len(kids) THEN Undef
    ELSE IF ~isEl(kids[j], "") THEN findFirstParticleIn(kids, j + 1)
    ELSE IF localName(kids[j].name) \in ParticleNames THEN Def(kids[j])
    ELSE IF findFirstParticleChild(kids[j]).defined THEN findFirstParticleChild(kids[j])
    ELSE findFirstParticleIn(kids, j + 1)

findFirstParticleChild(host) == findFirstParticleIn(host.children, 1)

IsPlainEmpty(p) == p.kind = "empty" /\ p.occurs.min = 1 /\ p.occurs.max = 1

KeptItem(p) == ~IsPlainEmpty(p)

RECURSIVE parseParticle(_)

\* el.children.filter(isEl).map(parseParticle).filter(not a plain empty)
parseItems(el) ==
    LET kids == childElements(el)
    IN SelectSeq([j \in 1..Len(kids) |-> parseParticle(kids[j])], KeptItem)

\* the body of a named group definition met as a particle
\* host ? parseParticle(host) : emptyParticle()
particleOrEmpty(host) == IF host.defined THEN parseParticle(host.value) ELSE emptyParticle

parseGroupBody(el) == particleOrEmpty(findFirstParticleChild(el))

\* parseParticle(el), for the local name ln, the occurs and the referenced
\* name ref of el
particleOf(el, ln, occurs, ref) ==
    CASE ln = "sequence" -> XsdSequence(parseItems(el), occurs)
      [] ln = "choice" -> XsdChoice(parseItems(el), occurs)
      [] ln = "all" -> XsdAll(parseItems(el), occurs)
      [] ln = "group" ->
             IF ref # "" THEN XsdGroupRef(ref, occurs)
             ELSE XsdSequence(<< parseGroupBody(el) >>, occurs)
      [] ln = "element" -> IF ref = "" THEN XsdEmpty(occurs) ELSE XsdElement(ref, occurs)
      [] ln = "any" -> XsdAny(occurs)
      [] OTHER -> emptyParticle

\* localName(attr(el, "ref") ?? ""), and for an element
\* localName(attr(el, "ref") ?? attr(el, "name") ?? "")
refOf(el, ln) ==
    localName(Coalesce(attr(el, "ref"),
                       IF ln = "element" THEN Coalesce(attr(el, "name"), "") ELSE ""))

particleNamed(el, ln) == particleOf(el, ln, occursOf(el), refOf(el, ln))

parseParticle(el) == particleNamed(el, localName(el.name))

mergeExtensionContent(base, extra) ==
    IF IsPlainEmpty(base) THEN extra
    ELSE IF IsPlainEmpty(extra) THEN base
    ELSE XsdSequence(<< base, extra >>, Occ(1, 1))

\* the first child element of el with the local name, if any
firstEl(el, ln) ==
    LET named(n) == isEl(n, ln)
        hits == SelectSeq(el.children, named)
    IN IF hits = <<>> THEN Undef ELSE Def(hits[1])

\* the values of the enumeration of an attribute, if it has one
\* the first child with the local name of an element that may be missing
firstIn(host, ln) == IF host.defined THEN firstEl(host.value, ln) ELSE Undef

\* the enumeration children of the restriction that have a value
enumsOf(restriction) ==
    LET isEnum(n) == isEl(n, "enumeration")
        hasValue(n) == attr(n, "value").defined /\ attr(n, "value").value # ""
    IN IF restriction.defined
       THEN SelectSeq(SelectSeq(restriction.value.children, isEnum), hasValue)
       ELSE <<>>

enumValues(enums) ==
    IF enums = <<>> THEN Undef ELSE Def([j \in 1..Len(enums) |-> attr(enums[j], "value").value])

extractAttributeEnum(attrEl) ==
    enumValues(enumsOf(firstIn(firstEl(attrEl, "simpleType"), "restriction")))

\* an XsdAttrDef: use, and fixed and enum when they are defined
AttrDefOfXsd(use, fixed, enum) == [use |-> use, fixed |-> fixed, enum |-> enum]

\* fixed ?? base?.fixed and enumVals ?? base?.enum, for the global attribute
\* base that ref names
attributeDefOf(use, fixed, enumVals, ref, base) ==
    IF ref.defined /\ ref.value # ""
    THEN AttrDefOfXsd(use,
             IF fixed.defined \/ ~base.defined THEN fixed ELSE base.value.fixed,
             IF enumVals.defined \/ ~base.defined THEN enumVals ELSE base.value.enum)
    ELSE AttrDefOfXsd(use, fixed, enumVals)

\* globalAttributes.get(localName(ref))
globalAttribute(globalAttributes, rn) ==
    IF MapHas(globalAttributes, rn) THEN Def(MapAt(globalAttributes, rn)) ELSE Undef

parseAttributeDef(attrEl, globalAttributes) ==
    attributeDefOf(Coalesce(attr(attrEl, "use"), "optional"), attr(attrEl, "fixed"),
                   extractAttributeEnum(attrEl), attr(attrEl, "ref"),
                   globalAttribute(globalAttributes, localName(Coalesce(attr(attrEl, "ref"), ""))))

\* the deepest chain of nested calls the stack of the engine holds
MaxCallDepth == 6

\* the Maps of schema elements that buildXsdIndex collects first
Globals(globalElements, complexTypeEls, groupEls, attributeGroupEls, globalAttrEls,
        substitutionGroups, substitutionGroupFor) ==
    [globalElements |-> globalElements, complexTypeEls |-> complexTypeEls, groupEls |-> groupEls,
     attributeGroupEls |-> attributeGroupEls, globalAttrEls |-> globalAttrEls,
     substitutionGroups |-> substitutionGroups, substitutionGroupFor |-> substitutionGroupFor]

NoGlobals == Globals(<<>>, <<>>, <<>>, <<>>, <<>>, <<>>, <<>>)

\* members.add(nm); substitutionGroups.set(head, members)
addMember(groups, head, nm) ==
    MapSet(groups, head, SetAdd(IF MapHas(groups, head) THEN MapAt(groups, head) ELSE <<>>, nm))

\* one child n of the schema element
collectGlobal(g, n) ==
    LET ln == localName(n.name)
        nm == Coalesce(attr(n, "name"), "")
        head == localName(Coalesce(attr(n, "substitutionGroup"), ""))
    IN IF ~isEl(n, "") \/ nm = "" THEN g
       ELSE CASE ln = "element" ->
                    IF head = "" THEN [g EXCEPT !.globalElements = MapSet(@, nm, n)]
                    ELSE [g EXCEPT !.globalElements = MapSet(@, nm, n),
                                   !.substitutionGroupFor = MapSet(@, nm, head),
                                   !.substitutionGroups = addMember(@, head, nm)]
              [] ln = "complexType" -> [g EXCEPT !.complexTypeEls = MapSet(@, nm, n)]
              [] ln = "group" -> [g EXCEPT !.groupEls = MapSet(@, nm, n)]
              [] ln = "attributeGroup" -> [g EXCEPT !.attributeGroupEls = MapSet(@, nm, n)]
              [] ln = "attribute" -> [g EXCEPT !.globalAttrEls = MapSet(@, nm, n)]
              [] OTHER -> g

RECURSIVE collectGlobals(_, _, _)
collectGlobals(g, kids, j) ==
    IF j > Len(kids) THEN g ELSE collectGlobals(collectGlobal(g, kids[j]), kids, j + 1)

RECURSIVE globalAttributes(_, _, _)
\* for (const [nm, el] of globalAttrEls) attributes.set(nm, parseAttributeDef(el, attributes))
globalAttributes(els, j, attributes) ==
    IF j > Len(els) THEN attributes
    ELSE globalAttributes(els, j + 1,
             MapSet(attributes, els[j].key, parseAttributeDef(els[j].value, attributes)))

\* the caches of the resolvers; threw when the call stack has overflowed
Caches(attributes, attributeGroups, groups, complexTypes, elements, threw) ==
    [attributes |-> attributes, attributeGroups |-> attributeGroups, groups |-> groups,
     complexTypes |-> complexTypes, elements |-> elements, threw |-> threw]

\* what a resolver returns, with the caches as it leaves them
Result(caches, value) == [caches |-> caches, value |-> value]

Overflow(caches) == Result([caches EXCEPT !.threw = TRUE], <<>>)

RECURSIVE resolveAttrGroup(_, _, _, _)
RECURSIVE attrGroupKids(_, _, _, _, _, _)

\* for (const [k, v] of resolveAttrGroup(ref, new Set(seen))) out.set(k, v)
attrGroupAfterRef(g, r, kids, j, out, seen) ==
    attrGroupKids(g, r.caches, kids, j + 1, MapSetAll(out, r.value, 1), seen)

\* the loop of resolveAttrGroup over host.children
attrGroupKids(g, caches, kids, j, out, seen) ==
    IF j > Len(kids) THEN Result(caches, out)
    ELSE IF ~isEl(kids[j], "") THEN attrGroupKids(g, caches, kids, j + 1, out, seen)
    ELSE IF localName(kids[j].name) = "attribute"
    THEN LET nm == Coalesce(attr(kids[j], "name"), localName(Coalesce(attr(kids[j], "ref"), "")))
         IN attrGroupKids(g, caches, kids, j + 1,
                IF nm # "" THEN MapSet(out, nm, parseAttributeDef(kids[j], caches.attributes))
                ELSE out, seen)
    ELSE IF localName(kids[j].name) = "attributeGroup"
            /\ localName(Coalesce(attr(kids[j], "ref"), "")) # ""
    THEN attrGroupAfterRef(g,
             resolveAttrGroup(g, caches, localName(Coalesce(attr(kids[j], "ref"), "")), seen),
             kids, j, out, seen)
    ELSE attrGroupKids(g, caches, kids, j + 1, out, seen)

\* attributeGroups.set(name, out); return out
cacheAttrGroup(name, r) ==
    Result([r.caches EXCEPT !.attributeGroups = MapSet(@, name, r.value)], r.value)

resolveAttrGroup(g, caches, name, seen) ==
    IF MapHas(caches.attributeGroups, name) THEN Result(caches, MapAt(caches.attributeGroups, name))
    ELSE IF name \in seen THEN Result(caches, <<>>)
    ELSE IF MapHas(g.attributeGroupEls, name)
    THEN cacheAttrGroup(name,
             attrGroupKids(g, caches, MapAt(g.attributeGroupEls, name).children, 1, <<>>,
                           seen \cup {name}))
    ELSE cacheAttrGroup(name, Result(caches, <<>>))

\* groups.set(name, parsed); return parsed
cacheGroup(caches, name, parsed) ==
    Result([caches EXCEPT !.groups = MapSet(@, name, parsed)], parsed)

resolveGroup(g, caches, name, seen) ==
    IF MapHas(caches.groups, name) THEN Result(caches, MapAt(caches.groups, name))
    ELSE IF name \in seen THEN Result(caches, emptyParticle)
    ELSE IF ~MapHas(g.groupEls, name) THEN Result(caches, emptyParticle)
    ELSE cacheGroup(caches, name, parseGroupBody(MapAt(g.groupEls, name)))

\* an XsdComplexTypeDef
ComplexTypeDef(content, attributes, mixed, allowAnyAttribute) ==
    [content |-> content, attributes |-> attributes, mixed |-> mixed,
     allowAnyAttribute |-> allowAnyAttribute]

NoComplexType == ComplexTypeDef(emptyParticle, <<>>, FALSE, FALSE)

\* what collectAttrs has gathered so far
Attrs(caches, attrs, allowAnyAttribute) ==
    [caches |-> caches, attrs |-> attrs, allowAnyAttribute |-> allowAnyAttribute]

RECURSIVE collectWalk(_, _, _, _)
RECURSIVE walkAttrs(_, _, _)

\* for (const [k, v] of ctx.resolveAttrGroup(ref)) attrs.set(k, v)
collectAfterRef(g, r, acc, kids, j) ==
    collectWalk(g, Attrs(r.caches, MapSetAll(acc.attrs, r.value, 1), acc.allowAnyAttribute), kids, j + 1)

\* the loop of walk(el) over el.children
collectWalk(g, acc, kids, j) ==
    IF j > Len(kids) THEN acc
    ELSE IF ~isEl(kids[j], "") THEN collectWalk(g, acc, kids, j + 1)
    ELSE IF localName(kids[j].name) = "attribute"
    THEN LET nm == Coalesce(attr(kids[j], "name"), localName(Coalesce(attr(kids[j], "ref"), "")))
         IN collectWalk(g,
                IF nm # ""
                THEN [acc EXCEPT !.attrs = MapSet(@, nm, parseAttributeDef(kids[j], acc.caches.attributes))]
                ELSE acc, kids, j + 1)
    ELSE IF localName(kids[j].name) = "attributeGroup"
    THEN IF localName(Coalesce(attr(kids[j], "ref"), "")) # ""
         THEN collectAfterRef(g,
                  resolveAttrGroup(g, acc.caches, localName(Coalesce(attr(kids[j], "ref"), "")), {}),
                  acc, kids, j)
         ELSE collectWalk(g, acc, kids, j + 1)
    ELSE IF localName(kids[j].name) = "anyAttribute"
    THEN collectWalk(g, [acc EXCEPT !.allowAnyAttribute = TRUE], kids, j + 1)
    ELSE collectWalk(g, walkAttrs(g, acc, kids[j]), kids, j + 1)

\* walk(el) of collectAttrs
walkAttrs(g, acc, el) == collectWalk(g, acc, el.children, 1)

collectAttrs(g, caches, host) == walkAttrs(g, Attrs(caches, <<>>, FALSE), host)

RECURSIVE resolveComplexType(_, _, _, _, _)
RECURSIVE parseComplexType(_, _, _, _)

\* the complexContent extension, once its base is resolved
extended(base, mixed, extParticle, extAttrs) ==
    Result(extAttrs.caches,
           ComplexTypeDef(mergeExtensionContent(base.content, extParticle),
                          MapSetAll(base.attributes, extAttrs.attrs, 1),
                          mixed \/ base.mixed,
                          base.allowAnyAttribute \/ extAttrs.allowAnyAttribute))

extendBase(g, ctEl, ext, mixed, base) ==
    IF base.caches.threw THEN base
    ELSE extended(base.value, mixed, parseGroupBody(ext), collectAttrs(g, base.caches, ext))

\* a complex type with its own attributes: simple content, or a direct particle
ownComplexType(content, mixed, attrs) ==
    Result(attrs.caches, ComplexTypeDef(content, attrs.attrs, mixed, attrs.allowAnyAttribute))

\* ctx.resolveComplexType(baseName): one argument, so the set of the names
\* being resolved starts empty again
resolveBase(g, caches, baseName, depth) ==
    IF baseName # "" THEN resolveComplexType(g, caches, baseName, {}, depth + 1)
    ELSE Result(caches, NoComplexType)

\* parseComplexType after the simple content case, for the mixed flag of
\* ctEl and its complexContent extension ext, if it has one
complexTypeOf(g, caches, ctEl, depth, mixed, ext) ==
    IF ext.defined
    THEN extendBase(g, ctEl, ext.value, mixed,
                    resolveBase(g, caches, localName(Coalesce(attr(ext.value, "base"), "")), depth))
    ELSE ownComplexType(parseGroupBody(ctEl), mixed, collectAttrs(g, caches, ctEl))

IsTrueText(mixedAttr) == mixedAttr = "true" \/ mixedAttr = "1"

parseComplexType(g, caches, ctEl, depth) ==
    IF firstEl(ctEl, "simpleContent").defined
    THEN ownComplexType(emptyParticle, TRUE, collectAttrs(g, caches, ctEl))
    ELSE complexTypeOf(g, caches, ctEl, depth,
                       IsTrueText(toLowerCase(Coalesce(attr(ctEl, "mixed"), ""))),
                       firstIn(firstEl(ctEl, "complexContent"), "extension"))

\* complexTypes.set(name, def); return def
cacheComplexType(name, r) ==
    IF r.caches.threw THEN r
    ELSE Result([r.caches EXCEPT !.complexTypes = MapSet(@, name, r.value)], r.value)

resolveComplexType(g, caches, name, seen, depth) ==
    IF depth > MaxCallDepth THEN Overflow(caches)
    ELSE IF MapHas(caches.complexTypes, name) THEN Result(caches, MapAt(caches.complexTypes, name))
    ELSE IF name \in seen THEN Result(caches, NoComplexType)
    ELSE IF ~MapHas(g.complexTypeEls, name) THEN Result(caches, NoComplexType)
    ELSE cacheComplexType(name, parseComplexType(g, caches, MapAt(g.complexTypeEls, name), depth))

\* what the walk of deriveAllowedChildrenFromParticle has gathered
Derived(names, hasAny, stack) == [names |-> names, hasAny |-> hasAny, stack |-> stack]

RECURSIVE deriveWalk(_, _, _)
RECURSIVE deriveItems(_, _, _, _)

deriveItems(caches, items, j, acc) ==
    IF j > Len(items) THEN acc
    ELSE deriveItems(caches, items, j + 1, deriveWalk(caches, items[j], acc))

\* walk(n, stack); resolveGroup(ref, new Set(stack)) finds ref in the set it
\* is handed, so it answers from the cache or with an empty particle
deriveWalk(caches, n, acc) ==
    CASE n.kind = "any" -> [acc EXCEPT !.hasAny = TRUE]
      [] n.kind = "element" -> [acc EXCEPT !.names = @ \cup {n.name}]
      [] n.kind = "groupRef" ->
             IF n.name \in acc.stack THEN acc
             ELSE deriveWalk(caches,
                      resolveGroup(NoGlobals, caches, n.name, acc.stack \cup {n.name}).value,
                      [acc EXCEPT !.stack = @ \cup {n.name}])
      [] n.kind \in {"sequence", "choice", "all"} -> deriveItems(caches, n.items, 1, acc)
      [] OTHER -> acc

allowedOf(d) ==
    IF d.hasAny THEN AllowedAny
    ELSE IF d.names = {} THEN AllowedEmpty
    ELSE AllowedSet(d.names)

deriveAllowedChildrenFromParticle(caches, p) ==
    allowedOf(deriveWalk(caches, p, Derived({}, FALSE, {})))

\* an XsdElementDef of the index; attributes is a Map of XsdAttrDef
ElementDef(n, content, attributes, mixed, allowAnyAttribute, allowedChildren) ==
    [name |-> n, content |-> content, attributes |-> attributes, mixed |-> mixed,
     allowAnyAttribute |-> allowAnyAttribute, allowedChildren |-> allowedChildren]

PlaceholderElement(n) == ElementDef(n, emptyParticle, <<>>, FALSE, FALSE, AllowedEmpty)

RECURSIVE resolveElementDefByName(_, _, _, _, _)

\* the definition of an element from its complex type ct, if it has one
elementFromType(n, ct) ==
    IF ct.caches.threw THEN ct
    ELSE Result(ct.caches,
                ElementDef(n, ct.value.content, ct.value.attributes, ct.value.mixed,
                           ct.value.allowAnyAttribute,
                           deriveAllowedChildrenFromParticle(ct.caches, ct.value.content)))

\* the complex type ct of an element: inline, by its type attribute, or none
typeOfElement(g, caches, depth, inlineCt, typeName) ==
    IF inlineCt.defined THEN parseComplexType(g, caches, inlineCt.value, depth)
    ELSE IF typeName # "" THEN resolveComplexType(g, caches, localName(typeName), {}, depth + 1)
    ELSE Result(caches, NoComplexType)

elementDefOf(g, caches, el, depth, name, ref) ==
    IF name = "" /\ ref # "" THEN resolveElementDefByName(g, caches, localName(ref), {}, depth + 1)
    ELSE IF name = "" THEN Result(caches, PlaceholderElement("(anonymous)"))
    ELSE elementFromType(name,
             typeOfElement(g, caches, depth, firstEl(el, "complexType"),
                           Coalesce(attr(el, "type"), "")))

parseElementDef(g, caches, el, depth) ==
    elementDefOf(g, caches, el, depth, Coalesce(attr(el, "name"), ""), Coalesce(attr(el, "ref"), ""))

\* elements.set(name, def); return def
cacheElement(name, r) ==
    IF r.caches.threw THEN r
    ELSE Result([r.caches EXCEPT !.elements = MapSet(@, name, r.value)], r.value)

resolveElementDefByName(g, caches, name, seen, depth) ==
    IF depth > MaxCallDepth THEN Overflow(caches)
    ELSE IF MapHas(caches.elements, name) THEN Result(caches, MapAt(caches.elements, name))
    ELSE IF name \in seen \/ ~MapHas(g.globalElements, name)
    THEN cacheElement(name, Result(caches, PlaceholderElement(name)))
    ELSE cacheElement(name, parseElementDef(g, caches, MapAt(g.globalElements, name), depth))

RECURSIVE resolveAttrGroups(_, _, _, _)
RECURSIVE resolveGroups(_, _, _, _)
RECURSIVE resolveComplexTypes(_, _, _, _)
RECURSIVE resolveElements(_, _, _, _)

\* for (const name of attributeGroupEls.keys()) resolveAttrGroup(name)
resolveAttrGroups(g, caches, names, j) ==
    IF j > Len(names) THEN caches
    ELSE resolveAttrGroups(g, resolveAttrGroup(g, caches, names[j], {}).caches, names, j + 1)

\* for (const name of groupEls.keys()) resolveGroup(name)
resolveGroups(g, caches, names, j) ==
    IF j > Len(names) THEN caches
    ELSE resolveGroups(g, resolveGroup(g, caches, names[j], {}).caches, names, j + 1)

\* for (const name of complexTypeEls.keys()) resolveComplexType(name)
resolveComplexTypes(g, caches, names, j) ==
    IF j > Len(names) \/ caches.threw THEN caches
    ELSE resolveComplexTypes(g, resolveComplexType(g, caches, names[j], {}, 1).caches, names, j + 1)

\* for (const name of globalElements.keys()) resolveElementDefByName(name)
resolveElements(g, caches, names, j) ==
    IF j > Len(names) \/ caches.threw THEN caches
    ELSE resolveElements(g, resolveElementDefByName(g, caches, names[j], {}, 1).caches, names, j + 1)

(***************************************************************************)
(* The compatibility overrides.  The source changes particles and element  *)
(* definitions in place; here a change is made where the object is reached *)
(* from: the content of the element and the particle of a group.  An       *)
(* object that the source shares between a complex type and the elements   *)
(* of that type is changed in the element the override names only.         *)
(***************************************************************************)
Relaxed(p, groups) == [p |-> p, groups |-> groups]

RECURSIVE relaxElementMinOccurs(_, _, _, _)
RECURSIVE relaxItems(_, _, _, _, _, _)

\* the loop over p.items goes on after the item j
relaxNext(items, j, done, r, names, seenGroups) ==
    relaxItems(items, j + 1, Append(done, r.p), r.groups, names, seenGroups)

relaxItems(items, j, done, groups, names, seenGroups) ==
    IF j > Len(items) THEN Relaxed(done, groups)
    ELSE relaxNext(items, j, done, relaxElementMinOccurs(items[j], groups, names, seenGroups),
                   names, seenGroups)

\* the particle p with its items relaxed
relaxedItems(p, r) == Relaxed([p EXCEPT !.items = r.p], r.groups)

\* the particle of group ref after the relaxation of its content
relaxGroup(p, ref, r) == Relaxed(p, MapSet(r.groups, ref, r.p))

relaxElementMinOccurs(p, groups, names, seenGroups) ==
    CASE p.kind = "element" ->
             IF p.name \in names /\ p.occurs.min > 0
             THEN Relaxed([p EXCEPT !.occurs = Occ(0, p.occurs.max)], groups)
             ELSE Relaxed(p, groups)
      [] p.kind \in {"sequence", "choice", "all"} ->
             relaxedItems(p, relaxItems(p.items, 1, <<>>, groups, names, seenGroups))
      [] p.kind = "groupRef" ->
             IF p.name \in seenGroups \/ ~MapHas(groups, p.name) THEN Relaxed(p, groups)
             ELSE relaxGroup(p, p.name,
                      relaxElementMinOccurs(MapAt(groups, p.name), groups, names,
                                            seenGroups \cup {p.name}))
      [] OTHER -> Relaxed(p, groups)

\* relaxElementMinOccurs(index.elements.get(n).content, index.groups, names)
relaxedElement(index, n, r) ==
    [index EXCEPT !.elements = MapSet(@, n, [MapAt(index.elements, n) EXCEPT !.content = r.p]),
                  !.groups = r.groups]

relaxIn(index, n, names) ==
    IF ~MapHas(index.elements, n) THEN index
    ELSE relaxedElement(index, n,
             relaxElementMinOccurs(MapAt(index.elements, n).content, index.groups, names, {}))

applyWritersideCfgCompat(index) == relaxIn(index, "ihp", {"api-specifications"})

RECURSIVE collectElementNamesFromParticle(_, _, _, _)
RECURSIVE collectNamesOfItems(_, _, _, _, _)

\* what collectElementNamesFromParticle has gathered: names is shared by the
\* calls, seenGroups is copied for each group
collectNamesOfItems(items, j, groups, names, seenGroups) ==
    IF j > Len(items) THEN names
    ELSE collectNamesOfItems(items, j + 1, groups,
             collectElementNamesFromParticle(items[j], groups, names, seenGroups), seenGroups)

collectElementNamesFromParticle(p, groups, names, seenGroups) ==
    CASE p.kind = "element" -> names \cup {p.name}
      [] p.kind \in {"sequence", "choice", "all"} ->
             collectNamesOfItems(p.items, 1, groups, names, seenGroups)
      [] p.kind = "groupRef" ->
             IF p.name \in seenGroups \/ ~MapHas(groups, p.name) THEN names
             ELSE collectElementNamesFromParticle(MapAt(groups, p.name), groups, names,
                                                  seenGroups \cup {p.name})
      [] OTHER -> names

\* def.mixed = true for the elements of the group InlineElements
mixedInline(index, inlineNames) ==
    [index EXCEPT !.elements =
        [j \in 1..Len(@) |->
            IF @[j].key \in inlineNames
            THEN Entry(@[j].key, [@[j].value EXCEPT !.mixed = TRUE]) ELSE @[j]]]

mixInline(index) ==
    IF ~MapHas(index.groups, "InlineElements") THEN index
    ELSE mixedInline(index, collectElementNamesFromParticle(MapAt(index.groups, "InlineElements"),
                                                      index.groups, {}, {}))

\* snippet.allowedChildren.add("spotlight")
snippetSpotlight(index) ==
    IF MapHas(index.elements, "snippet") /\ MapAt(index.elements, "snippet").allowedChildren.kind = "SET"
    THEN [index EXCEPT !.elements =
             MapSet(@, "snippet",
                    [MapAt(index.elements, "snippet") EXCEPT
                        !.allowedChildren = AllowedSet(@.names \cup {"spotlight"})])]
    ELSE index

applyWritersideTopicCompat(index) ==
    IF ~MapHas(index.elements, "topic") THEN index
    ELSE snippetSpotlight(
             relaxIn(mixInline(relaxIn(index, "topic", {"include-in-head"})),
                     "SectionGroupElementBase", {"title"}))

\* the members of the substitution groups headed by the names
SubstitutesOf(index, names) ==
    { m \in UNION { { s[j] : j \in 1..Len(s) } :
                    s \in { index.substitutionGroups[k].value : k \in 1..Len(index.substitutionGroups) } } :
        \E n \in names : MapHas(index.substitutionGroups, n)
                         /\ SeqHas(MapAt(index.substitutionGroups, n), m) }

expandAllowedChildrenForSubstitutions(index) ==
    IF Len(index.substitutionGroups) = 0 THEN index
    ELSE [index EXCEPT !.elements =
             [j \in 1..Len(@) |->
                 IF @[j].value.allowedChildren.kind # "SET" THEN @[j]
                 ELSE Entry(@[j].key,
                            [@[j].value EXCEPT !.allowedChildren =
                                AllowedSet(@.names \cup SubstitutesOf(index, @.names))])]]

applyCompatibilityOverrides(index) ==
    expandAllowedChildrenForSubstitutions(applyWritersideTopicCompat(applyWritersideCfgCompat(index)))

\* how buildXsdIndex ended: with an index, or with a thrown error
XsdBuildPending == [state |-> "pending", error |-> "", message |-> "", index |-> <<>>]

XsdBuilt(index) == [state |-> "returned", error |-> "", message |-> "", index |-> index]

XsdBuildThrown(error, message) ==
    [state |-> "thrown", error |-> error, message |-> message, index |-> <<>>]

\* the XsdIndex of the caches
IndexOf(g, caches) ==
    [elements |-> caches.elements, complexTypes |-> caches.complexTypes, groups |-> caches.groups,
     attributeGroups |-> caches.attributeGroups, attributes |-> caches.attributes,
     substitutionGroups |-> g.substitutionGroups, substitutionGroupFor |-> g.substitutionGroupFor]

\* the four loops that resolve every global name, in the order of the source
resolveGlobals(g, caches) ==
    resolveElements(g,
        resolveComplexTypes(g,
            resolveGroups(g,
                resolveAttrGroups(g, caches, MapKeys(g.attributeGroupEls), 1),
                MapKeys(g.groupEls), 1),
            MapKeys(g.complexTypeEls), 1),
        MapKeys(g.globalElements), 1)

\* buildXsdIndex from the globals on
buildFromGlobals(g, caches) ==
    IF caches.threw THEN XsdBuildThrown("RangeError", "Maximum call stack size exceeded")
    ELSE XsdBuilt(applyCompatibilityOverrides(IndexOf(g, caches)))

\* buildXsdIndex(xsdText), for the tree ast that parseXmlToXast makes of the text
\* buildXsdIndex once the schema elements are collected in g
buildFrom(g) ==
    buildFromGlobals(g,
        resolveGlobals(g, Caches(globalAttributes(g.globalAttrEls, 1, <<>>),
                                 <<>>, <<>>, <<>>, <<>>, FALSE)))

\* buildXsdIndex for the schema element of the tree, if it has one
buildSchema(schema) ==
    IF ~schema.defined THEN XsdBuildThrown("Error", "XSD: missing <schema> root element")
    ELSE buildFrom(collectGlobals(NoGlobals, schema.value.children, 1))

buildXsdIndex(ast) == buildSchema(firstEl(ast, "schema"))

XsdBuildIdle ==
    /\ bldAst = <<>>
    /\ bldOutcome = XsdBuildPending

\* the call buildXsdIndex(xsdText)
BuildXsdIndex ==
    /\ bldAst # <<>>
    /\ bldOutcome.state = "pending"
    /\ bldOutcome' = buildXsdIndex(bldAst)
    /\ UNCHANGED bldAst
    /\ UNCHANGED <<dtdVars, xsdVars, valVars, sanVars, parseVars, renVars, strVars, synVars, sizeVars>>

(***************************************************************************)
(* The schemas buildXsdIndex is called on: the children of the schema      *)
(* element are drawn from definitions that reference one another, and      *)
(* themselves.                                                             *)
(***************************************************************************)
MaxSchemaKids == 2

Xs(n, attributes, children) == ElementNode("xs:" \o n, attributes, children)

Named(n) == << Attr("name", n) >>

LeafSequence(n) == Xs("sequence", <<>>, << Xs("element", Named(n), <<>>) >>)

\* <xs:complexType name=n><xs:complexContent><xs:extension base=base>...
ExtendingType(n, base) ==
    Xs("complexType", Named(n),
       << Xs("complexContent", <<>>,
             << Xs("extension", << Attr("base", base) >>, << LeafSequence("x") >>) >>) >>)

PlainType(n) ==
    Xs("complexType", Named(n),
       << Xs("sequence", <<>>,
             << Xs("element", Named("y"), <<>>), Xs("group", << Attr("ref", "G") >>, <<>>) >>),
          Xs("attributeGroup", << Attr("ref", "P") >>, <<>>) >>)

\* a named group whose body references the group ref
GroupWithRef(n, ref) ==
    Xs("group", Named(n),
       << Xs("sequence", <<>>,
             << Xs("element", Named("z"), <<>>), Xs("group", << Attr("ref", ref) >>, <<>>) >>) >>)

\* a named attribute group with one attribute, referencing the group ref
AttrGroupWithRef(n, own, ref) ==
    Xs("attributeGroup", Named(n),
       << Xs("attribute", Named(own), <<>>), Xs("attributeGroup", << Attr("ref", ref) >>, <<>>) >>)

TypedElement(n, type) == Xs("element", << Attr("name", n), Attr("type", type) >>, <<>>)

SchemaKids ==
    { ExtendingType("A", "A"), ExtendingType("A", "B"), ExtendingType("B", "A"),
      ExtendingType("B", "C"), PlainType("B"), PlainType("C"),
      GroupWithRef("G", "G"), GroupWithRef("G", "H"), GroupWithRef("H", "G"),
      AttrGroupWithRef("P", "p", "P"), AttrGroupWithRef("P", "p", "Q"),
      AttrGroupWithRef("Q", "q", "P"),
      TypedElement("e", "A"), TypedElement("f", "B"),
      Xs("element", << Attr("name", "s"), Attr("substitutionGroup", "y") >>, <<>>) }

XsdDocuments ==
    { [children |-> << Xs("schema", <<>>, kids) >>] :
        kids \in UNION { [1..n -> SchemaKids] : n \in 0..MaxSchemaKids } }
    \cup { [children |-> << ElementNode("topic", <<>>, <<>>) >>], [children |-> <<>>] }

(***************************************************************************)
(* Schemas with substitution groups: element e holds a sequence with the   *)
(* element x; y, z and s are declared with a substitutionGroup, so that    *)
(* z substitutes y and y substitutes x.                                    *)
(***************************************************************************)
MaxSubstKids == 3

\* <xs:element name=n><xs:complexType><xs:sequence><xs:element name=child/>...
ElementWithChild(n, child) ==
    Xs("element", Named(n),
       << Xs("complexType", <<>>, << LeafSequence(child) >>) >>)

Substitute(n, head) ==
    Xs("element", << Attr("name", n), Attr("substitutionGroup", head) >>, <<>>)

SubstSchemaKids ==
    { ElementWithChild("e", "x"), ElementWithChild("f", "y"),
      Substitute("y", "x"), Substitute("z", "y"), Substitute("s", "x") }

XsdSubstBuildInit ==
    /\ bldAst \in { [children |-> << Xs("schema", <<>>, kids) >>] :
                       kids \in SeqsUpTo(SubstSchemaKids, MaxSubstKids) }
    /\ bldOutcome = XsdBuildPending

XsdBuildInit ==
    /\ bldAst \in XsdDocuments
    /\ bldOutcome = XsdBuildPending

(***************************************************************************)
(* Parser.parse (parser_base.ts), the template method, with the three      *)
(* parsers that extend Parser.  parse is an async function: it runs up to  *)
(* the await of the fetch in one step, and from there to its end in one    *)
(* step once the promise of the fetcher has settled.                       *)
(*                                                                         *)
(* parseXmlToXast hands the sanitized text to the XML parser of the xast   *)
(* library; the document records what that parser makes of the text: a     *)
(* tree with a root element, a tree without one, or an error.  Its field   *)
(* doctype is the SYSTEM identifier that the expression of                 *)
(* InstanceProfileParser.resolveSchema finds in the text, if it finds one. *)
(***************************************************************************)
Parsers == {"InstanceProfileParser", "WritersideCfgParser", "TopicParser"}

expectedRoot(parser) ==
    CASE parser = "InstanceProfileParser" -> "instance-profile"
      [] parser = "WritersideCfgParser" -> "ihp"
      [] parser = "TopicParser" -> "topic"

Document(ast, root, doctype) == [ast |-> ast, root |-> root, doctype |-> doctype]

ParsePending == [state |-> "pending", step |-> "", message |-> "", value |-> <<>>]

ParseReturned(value) == [state |-> "returned", step |-> "", message |-> "", value |-> value]

\* the Error a step has thrown, or the reason the fetch was rejected with
ParseThrown(step, message) == [state |-> "thrown", step |-> step, message |-> message, value |-> <<>>]

EndsWith(s, p) == Len(s) >= Len(p) /\ StrSlice(s, Len(s) - Len(p), Len(s)) = p

IsSchemaLocation(e) == EndsWith(e.name, ":noNamespaceSchemaLocation")

\* parts[parts.length - 1] of raw.split(/\s+/), for a trimmed raw
lastPart(raw) ==
    LET k == CHOOSE j \in 0..Len(raw) :
                 /\ j = 0 \/ CharAt(raw, j - 1) \in WhiteSpace
                 /\ \A m \in j..(Len(raw) - 1) : CharAt(raw, m) \notin WhiteSpace
    IN StrFrom(raw, k)

Resolved(kind, url) == [threw |-> FALSE, kind |-> kind, url |-> url, message |-> ""]

ResolveError(message) == [threw |-> TRUE, kind |-> "", url |-> "", message |-> message]

\* WritersideCfgParser.resolveSchema and TopicParser.resolveSchema
resolveSchemaLocation(who, root) ==
    LET kv == SelectSeq(root.attributes, IsSchemaLocation)
    IN IF kv = <<>> THEN ResolveError(who \o ": missing xsi:noNamespaceSchemaLocation")
       ELSE Resolved("xsd", lastPart(Trim(kv[1].value)))

resolveSchema(parser, doc, root) ==
    IF parser = "InstanceProfileParser"
    THEN IF doc.doctype.defined THEN Resolved("dtd", doc.doctype.value)
         ELSE ResolveError("instance-profile: missing DOCTYPE SYSTEM identifier")
    ELSE resolveSchemaLocation(IF parser = "WritersideCfgParser" THEN "cfg" ELSE "topic", root)

\* the schema text the fetcher answers with: the declarations of a DTD, or
\* what buildXsdIndex makes of an XSD text (an index, or nothing when the
\* text has no schema root element)
DtdSchema(decls) == [kind |-> "dtd", decls |-> decls, xsd |-> Undef]

XsdSchema(xsd) == [kind |-> "xsd", decls |-> <<>>, xsd |-> xsd]

Built(index) == [threw |-> FALSE, index |-> index, message |-> ""]

BuildError(message) == [threw |-> TRUE, index |-> <<>>, message |-> message]

\* InstanceProfileParser.buildIndex is buildDtdIndex, the others buildXsdIndex
buildIndex(parser, schema) ==
    IF parser = "InstanceProfileParser"
    THEN IF schema.kind # "dtd" THEN Built([state |-> "built", elements |-> <<>>])
         ELSE LET r == buildDtdIndex(schema.decls)
              IN IF r.ok THEN Built([state |-> "built", elements |-> r.elements])
                 ELSE BuildError("DTD: content model error")
    ELSE IF schema.xsd.defined THEN Built(schema.xsd.value)
         ELSE BuildError("XSD: missing <schema> root element")

validate(parser, root, index) ==
    IF parser = "InstanceProfileParser"
    THEN validateAgainstDtd(root, expectedRoot(parser), index)
    ELSE validateAgainstXsd(root, expectedRoot(parser), index)

\* firstChild(el, name): the first child element with the local name, if any
firstChild(el, name) ==
    LET named(c) == IsElement(c) /\ localName(c.name) = name
        hits == SelectSeq(el.children, named)
    IN IF hits = <<>> THEN Undef ELSE Def(hits[1])

\* getAttr(el, name) of an own attribute
getAttr(el, name) ==
    IF \E k \in 1..Len(el.attributes) : el.attributes[k].name = name
    THEN Def(AttrValue(el.attributes, name)) ELSE Undef

OrElse(x, default) == IF x.defined THEN x.value ELSE default

\* getAttr(firstChild(root, child) ?? {}, name)
childAttr(root, child, name) ==
    IF firstChild(root, child).defined THEN getAttr(firstChild(root, child).value, name) ELSE Undef

InstanceOf(i) == [src |-> getAttr(i, "src"), webPath |-> getAttr(i, "web-path")]

HasSrc(o) == o.src.defined /\ o.src.value # ""

IsInstance(c) == IsElement(c) /\ localName(c.name) = "instance"

\* WritersideCfgParser.project
projectCfg(root) ==
    [topicsDir |-> OrElse(childAttr(root, "topics", "dir"), "topics"),
     snippetsDir |-> OrElse(childAttr(root, "snippets", "src"), "snippets"),
     imagesDir |-> [dir |-> OrElse(childAttr(root, "images", "dir"), "images"),
                    webPath |-> childAttr(root, "images", "web-path")],
     instances |-> SelectSeq([k \in 1..Len(SelectSeq(root.children, IsInstance)) |->
                                 InstanceOf(SelectSeq(root.children, IsInstance)[k])], HasSrc)]

\* project: the root itself unless the parser overrides it
project(parser, root) == IF parser = "WritersideCfgParser" THEN projectCfg(root) ELSE root

\* what a call has done when it stops: the steps it invoked, how it ended
\* (pending at the await), and the promise of the fetch with the urls the
\* fetcher was called with
Run(steps, outcome, fetch) == [steps |-> steps, outcome |-> outcome, fetch |-> fetch]

NoFetch == [state |-> "none", urls |-> <<>>]

Fetching(state, url) == [state |-> state, urls |-> << url >>]

RootMismatch(expected, got) == "Root must be <" \o expected \o ">, got <" \o got \o ">"

\* const schema = await fetcher(url): the call of the fetcher
parseFetchCall(steps, fetcher, url) ==
    IF fetcher.behaviour = "throws"
    THEN Run(Append(steps, "fetcher"), ParseThrown("fetcher", "fetcher failed"),
             Fetching("none", url))
    ELSE Run(Append(steps, "fetcher"), ParsePending, Fetching("pending", url))

\* const { url } = this.resolveSchema(xml, root), then the fetch
parseResolve(steps, parser, doc, fetcher, res) ==
    IF res.threw
    THEN Run(Append(steps, "resolveSchema"), ParseThrown("resolveSchema", res.message), NoFetch)
    ELSE parseFetchCall(Append(steps, "resolveSchema"), fetcher, res.url)

\* parse with schema resolution moved before the check of the root name
parseUntilAwait_ResolveFirst(parser, doc, fetcher) ==
    IF doc.ast = "error"
    THEN Run(<< "parseXmlToXast" >>, ParseThrown("parseXmlToXast", "[authord] XML parse error"), NoFetch)
    ELSE IF doc.ast = "noRoot"
    THEN Run(<< "parseXmlToXast", "getRootElement" >>,
             ParseThrown("getRootElement", "XML has no root element"), NoFetch)
    ELSE IF resolveSchema(parser, doc, doc.root).threw
    THEN parseResolve(<< "parseXmlToXast", "getRootElement" >>, parser, doc, fetcher,
                      resolveSchema(parser, doc, doc.root))
    ELSE IF localName(doc.root.name) # expectedRoot(parser)
    THEN Run(<< "parseXmlToXast", "getRootElement", "resolveSchema", "rootCheck" >>,
             ParseThrown("rootCheck", RootMismatch(expectedRoot(parser), localName(doc.root.name))),
             NoFetch)
    ELSE parseFetchCall(<< "parseXmlToXast", "getRootElement", "resolveSchema", "rootCheck" >>,
                        fetcher, resolveSchema(parser, doc, doc.root).url)

\* parse, from its call to the await of the fetch
parseUntilAwait(parser, doc, fetcher) ==
    IF doc.ast = "error"
    THEN Run(<< "parseXmlToXast" >>, ParseThrown("parseXmlToXast", "[authord] XML parse error"), NoFetch)
    ELSE IF doc.ast = "noRoot"
    THEN Run(<< "parseXmlToXast", "getRootElement" >>,
             ParseThrown("getRootElement", "XML has no root element"), NoFetch)
    ELSE IF localName(doc.root.name) # expectedRoot(parser)
    THEN Run(<< "parseXmlToXast", "getRootElement", "rootCheck" >>,
             ParseThrown("rootCheck", RootMismatch(expectedRoot(parser), localName(doc.root.name))),
             NoFetch)
    ELSE parseResolve(<< "parseXmlToXast", "getRootElement", "rootCheck" >>, parser, doc, fetcher,
                      resolveSchema(parser, doc, doc.root))

\* this.validate(root, index); return this.project(root)
parseValidate(steps, parser, root, fetch, built) ==
    IF built.threw
    THEN Run(Append(steps, "buildIndex"), ParseThrown("buildIndex", built.message), fetch)
    ELSE IF validate(parser, root, built.index).state = "thrown"
    THEN Run(steps \o << "buildIndex", "validate" >>,
             ParseThrown("validate", validate(parser, root, built.index).message), fetch)
    ELSE Run(steps \o << "buildIndex", "validate", "project" >>,
             ParseReturned(project(parser, root)), fetch)

\* parse with the validation left out
parseAfterAwait_NoValidate(steps, parser, doc, fetcher, fetch) ==
    IF fetch.state = "rejected"
    THEN Run(steps, ParseThrown("fetcher", "fetch rejected"), fetch)
    ELSE IF buildIndex(parser, fetcher.schema).threw
    THEN Run(Append(steps, "buildIndex"),
             ParseThrown("buildIndex", buildIndex(parser, fetcher.schema).message), fetch)
    ELSE Run(steps \o << "buildIndex", "validate", "project" >>,
             ParseReturned(project(parser, doc.root)), fetch)

\* parse, from the settled fetch to its end
parseAfterAwait(steps, parser, doc, fetcher, fetch) ==
    IF fetch.state = "rejected"
    THEN Run(steps, ParseThrown("fetcher", "fetch rejected"), fetch)
    ELSE parseValidate(steps, parser, doc.root, fetch, buildIndex(parser, fetcher.schema))

ParseIdle ==
    /\ parseParser = ""
    /\ parseDoc = <<>>
    /\ parseFetcher = <<>>
    /\ parsePc = "idle"
    /\ parseFetch = NoFetch
    /\ parseSteps = <<>>
    /\ parseOutcome = ParsePending

OtherIdle == DtdIdle /\ XsdIdle /\ ValIdle /\ SanIdle

\* the call of parse, up to the await (or to the error that ends it before)
Parse ==
    /\ parsePc = "idle"
    /\ parseParser \in Parsers
    /\ LET r == parseUntilAwait(parseParser, parseDoc, parseFetcher)
       IN /\ parseSteps' = r.steps
          /\ parseOutcome' = r.outcome
          /\ parseFetch' = r.fetch
          /\ parsePc' = IF r.outcome.state = "pending" THEN "awaiting" ELSE "done"
    /\ UNCHANGED <<parseParser, parseDoc, parseFetcher>>
    /\ UNCHANGED <<dtdVars, xsdVars, valVars, sanVars, bldVars, renVars, strVars, synVars, sizeVars>>

\* the promise the fetcher returned settles
FetchSettles ==
    /\ parseFetch.state = "pending"
    /\ parseFetch' = [parseFetch EXCEPT !.state =
                         IF parseFetcher.behaviour = "resolves" THEN "fulfilled" ELSE "rejected"]
    /\ UNCHANGED <<parseParser, parseDoc, parseFetcher, parsePc, parseSteps, parseOutcome>>
    /\ UNCHANGED <<dtdVars, xsdVars, valVars, sanVars, bldVars, renVars, strVars, synVars, sizeVars>>

\* parse resumes after the await and runs to its end
ParseResumes ==
    /\ parsePc = "awaiting"
    /\ parseFetch.state \in {"fulfilled", "rejected"}
    /\ LET r == parseAfterAwait(parseSteps, parseParser, parseDoc, parseFetcher, parseFetch)
       IN /\ parseSteps' = r.steps
          /\ parseOutcome' = r.outcome
    /\ parsePc' = "done"
    /\ UNCHANGED <<parseParser, parseDoc, parseFetcher, parseFetch>>
    /\ UNCHANGED <<dtdVars, xsdVars, valVars, sanVars, bldVars, renVars, strVars, synVars, sizeVars>>

(***************************************************************************)
(* The inputs of Parser.parse: a parser, a document (its root named as the *)
(* parser expects, with or without a prefix, or otherwise; with a schema   *)
(* location attribute or without; with up to MaxParseKids children), and a *)
(* fetcher that resolves with a schema, rejects, or throws when called.    *)
(***************************************************************************)
MaxParseKids == 1

ParseRootNames(parser) == { expectedRoot(parser), "x:" \o expectedRoot(parser), "other" }

ParseAttrs ==
    { <<>>,
      << Attr("xsi:noNamespaceSchemaLocation", "s.xsd") >>,
      << Attr("id", "1"), Attr("xsi:noNamespaceSchemaLocation", " urn:ns  s.xsd ") >>,
      << Attr("noNamespaceSchemaLocation", "s.xsd") >> }

ParseKids ==
    { ElementNode("a", <<>>, <<>>), ElementNode("topics", << Attr("dir", "t") >>, <<>>),
      ElementNode("instance", << Attr("src", "i.tree") >>, <<>>), ElementNode("zzz", <<>>, <<>>) }

ParseDocs(parser) ==
    { Document("tree", ElementNode(n, at, ks), dt) :
          n \in ParseRootNames(parser), at \in ParseAttrs,
          ks \in SeqsUpTo(ParseKids, MaxParseKids), dt \in { Undef, Def("p.dtd") } }
    \cup { Document(a, ElementNode("", <<>>, <<>>), Undef) : a \in {"noRoot", "error"} }

\* an element that may hold a, topics and instance, each at most once, in order
ParseRootDef(n) ==
    XsdElementDef(n,
        XsdSequence(<< XsdElement("a", Occ(0, 1)), XsdElement("topics", Occ(0, 1)),
                       XsdElement("instance", Occ(0, 1)) >>, Occ(1, 1)),
        << XsdAttrDef("id", "optional", FALSE, "", FALSE, <<>>) >>,
        FALSE, FALSE, AllowedSet({"a", "topics", "instance"}))

ParseLeafDef(n, attribute) ==
    XsdElementDef(n, emptyParticle, << XsdAttrDef(attribute, "optional", FALSE, "", FALSE, <<>>) >>,
                  FALSE, FALSE, AllowedEmpty)

ParseXsdIndex ==
    [elements |->
        [n \in {"ihp", "topic", "a", "topics", "instance"} |->
            CASE n \in {"ihp", "topic"} -> ParseRootDef(n)
              [] n = "a" -> ParseLeafDef(n, "id")
              [] n = "topics" -> ParseLeafDef(n, "dir")
              [] n = "instance" -> ParseLeafDef(n, "src")],
     groups |-> <<>>, substitutionGroups |-> <<>>, substitutionGroupFor |-> <<>>]

ParseDtdDecls(rootModel) ==
    << ElementDecl("instance-profile", rootModel), ElementDecl("a", "EMPTY"),
       ElementDecl("topics", "EMPTY"), ElementDecl("instance", "EMPTY"),
       AttlistDecl("instance-profile", << AttrDecl("id", "CDATA", <<>>, "#IMPLIED", "") >>),
       AttlistDecl("topics", << AttrDecl("dir", "CDATA", <<>>, "#IMPLIED", "") >>),
       AttlistDecl("instance", << AttrDecl("src", "CDATA", <<>>, "#IMPLIED", "") >>) >>

ParseSchemas(parser) ==
    IF parser = "InstanceProfileParser"
    THEN { DtdSchema(ParseDtdDecls("(a?,topics?,instance?)")), DtdSchema(ParseDtdDecls("(a,topics|instance)")) }
    ELSE { XsdSchema(Def(ParseXsdIndex)), XsdSchema(Undef) }

Fetcher(behaviour, schema) == [behaviour |-> behaviour, schema |-> schema]

ParseFetchers(parser) ==
    { Fetcher("resolves", s) : s \in ParseSchemas(parser) }
    \cup { Fetcher(b, XsdSchema(Undef)) : b \in {"rejects", "throws"} }

ParseInit ==
    /\ parseParser \in Parsers
    /\ parseDoc \in ParseDocs(parseParser)
    /\ parseFetcher \in ParseFetchers(parseParser)
    /\ parsePc = "idle"
    /\ parseFetch = NoFetch
    /\ parseSteps = <<>>
    /\ parseOutcome = ParsePending

(***************************************************************************)
(* renderXast (images.ts): the dispatch on the root element.  The          *)
(* renderers it awaits, renderMarkdown and renderTopicXast, are promises   *)
(* that settle either way.                                                 *)
(***************************************************************************)
RenderPending == [state |-> "pending", message |-> "", value |-> <<>>]

RenderFulfilled(value) == [state |-> "fulfilled", message |-> "", value |-> value]

RenderRejected(message) == [state |-> "rejected", message |-> message, value |-> <<>>]

\* a rendering step that was invoked, with its argument
Step(fn, arg) == [fn |-> fn, arg |-> arg]

RECURSIVE textOfChildren(_, _)
\* the loop of extractMarkdownFromMdPage: the values of the text children
textOfChildren(kids, k) ==
    IF k > Len(kids) THEN ""
    ELSE (IF kids[k].type = "text" THEN kids[k].value ELSE "") \o textOfChildren(kids, k + 1)

extractMarkdownFromMdPage(mdPage) == textOfChildren(mdPage.children, 1)

\* renderXast up to its await, or to its throw
Rendering(steps, outcome) == [steps |-> steps, outcome |-> outcome]

UnsupportedRoot(tag) ==
    "renderXast: unsupported root <" \o tag \o "> (expected <topic> or <md-page>)."

\* renderXast for a root that is rendered whatever its name
renderTag_AnyRoot(root, tag) ==
    IF tag = "md-page"
    THEN Rendering(<< Step("extractMarkdownFromMdPage", root),
                      Step("renderMarkdown", extractMarkdownFromMdPage(root)) >>, RenderPending)
    ELSE Rendering(<< Step("renderTopicXast", root) >>, RenderPending)

\* renderXast for the local name tag of the root
renderTag(root, tag) ==
    IF tag = "md-page"
    THEN Rendering(<< Step("extractMarkdownFromMdPage", root),
                      Step("renderMarkdown", extractMarkdownFromMdPage(root)) >>, RenderPending)
    ELSE IF tag = "topic"
    THEN Rendering(<< Step("renderTopicXast", root) >>, RenderPending)
    ELSE Rendering(<<>>, RenderRejected(UnsupportedRoot(tag)))

renderXast(root) == renderTag(root, localName(root.name))

RenderIdle ==
    /\ renRoot = <<>>
    /\ renPc = "idle"
    /\ renSteps = <<>>
    /\ renOutcome = RenderPending

\* the call renderXast(root), up to the await
RenderXast ==
    /\ renPc = "idle"
    /\ renRoot # <<>>
    /\ renSteps' = renderXast(renRoot).steps
    /\ renOutcome' = renderXast(renRoot).outcome
    /\ renPc' = IF renderXast(renRoot).outcome.state = "pending" THEN "awaiting" ELSE "done"
    /\ UNCHANGED renRoot
    /\ UNCHANGED <<dtdVars, xsdVars, valVars, sanVars, parseVars, bldVars, strVars, synVars, sizeVars>>

\* the renderer that renderXast awaits settles, and renderXast with it
RenderSettles ==
    /\ renPc = "awaiting"
    /\ \E fulfilled \in BOOLEAN :
          renOutcome' = IF fulfilled THEN RenderFulfilled(renSteps[Len(renSteps)])
                        ELSE RenderRejected("the renderer failed")
    /\ renPc' = "done"
    /\ UNCHANGED <<renRoot, renSteps>>
    /\ UNCHANGED <<dtdVars, xsdVars, valVars, sanVars, parseVars, bldVars, strVars, synVars, sizeVars>>

(***************************************************************************)
(* The roots renderXast is called on.                                      *)
(***************************************************************************)
MaxRenderKids == 2

RenderPrefixes == {"", "x:", "a:b:"}

RenderLocalNames == {"topic", "md-page", "Topic", "unknown", "md-pages", "", "html"}

RenderKids == { TextNode("# T"), TextNode("x"), ElementNode("p", <<>>, << TextNode("y") >>) }

RenderInit ==
    /\ renRoot \in { ElementNode(p \o n, <<>>, kids) :
                         p \in RenderPrefixes, n \in RenderLocalNames,
                         kids \in SeqsUpTo(RenderKids, MaxRenderKids) }
    /\ renPc = "idle"
    /\ renSteps = <<>>
    /\ renOutcome = RenderPending

(***************************************************************************)
(* The streaming pass, turn by turn.  strLast keeps the token of the last  *)
(* turn: its kind, its text, the tag it parsed to, the stack before the    *)
(* turn and what the turn wrote.                                           *)
(***************************************************************************)
NoToken == [kind |-> "none", text |-> "", tag |-> InvalidTag(0), ctxBefore |-> <<>>, written |-> ""]

TokenKind(s, i, tag) ==
    IF CharAt(s, i) # "<" THEN "text" ELSE IF tag.valid THEN "tag" ELSE "malformed"

\* the token at i, which the turn r has consumed
TokenOf(s, i, out, ctxStack, tag, r) ==
    [kind |-> TokenKind(s, i, tag), text |-> StrSlice(s, i, r.i), tag |-> tag,
     ctxBefore |-> ctxStack, written |-> StrFrom(r.out, Len(out))]

StreamIdle ==
    /\ strText = ""
    /\ strSets = <<>>
    /\ strI = 0
    /\ strOut = ""
    /\ strCtx = <<>>
    /\ strLast = NoToken

\* the state after the turn r of the loop
StreamTurn(r) ==
    /\ strI' = r.i
    /\ strOut' = r.out
    /\ strCtx' = r.ctxStack
    /\ strLast' = TokenOf(strText, strI, strOut, strCtx,
                          IF CharAt(strText, strI) = "<" THEN parseTagDetailed(strText, strI)
                          ELSE InvalidTag(strI), r)

\* one turn of  while (i < s.length)
StreamStep ==
    /\ strSets # <<>>
    /\ strI < Len(strText)
    /\ StreamTurn(streamStep(strText, strSets, strI, strOut, strCtx))
    /\ UNCHANGED <<strText, strSets>>
    /\ UNCHANGED <<dtdVars, xsdVars, valVars, sanVars, parseVars, bldVars, renVars, synVars, sizeVars>>

(***************************************************************************)
(* The texts of the streaming pass: up to MaxStreamChunks chunks, each a   *)
(* piece of text, a "<" that starts no tag, or a tag: container tags (p    *)
(* inline, note rich), a tag allowed in note and not in p, and a prefixed  *)
(* tag with a ">" inside an attribute value.                               *)
(***************************************************************************)
MaxStreamChunks == 3

StreamChunks ==
    {"x", "<", "<p>", "</P>", "<note>", "<b>", "</b>", "<x:b t=\">\">", "<p/>"}

StreamTexts == { ConcatAll(chunks, 1) : chunks \in SeqsUpTo(StreamChunks, MaxStreamChunks) }

StreamSets(force, escapeUnknown, escapeBare) ==
    ContainerSets([richTextContainers |-> << "Note" >>,
                   inlineTextContainers |-> << "p" >>,
                   forceTextInContainers |-> force,
                   escapeUnknownTagMentionsInText |-> escapeUnknown,
                   allowedInlineTags |-> << "i" >>,
                   allowedRichTags |-> << "b" >>,
                   escapeBareAnglesInText |-> escapeBare])

StreamInit ==
    /\ strText \in StreamTexts
    /\ strSets \in { StreamSets(FALSE, TRUE, TRUE), StreamSets(TRUE, TRUE, TRUE),
                     StreamSets(FALSE, FALSE, FALSE) }
    /\ strI = 0
    /\ strOut = ""
    /\ strCtx = <<>>
    /\ strLast = NoToken

(***************************************************************************)
(* ConfluenceSync.sync (confluence_storage_renderer.ts).  sync is an async *)
(* function: a call runs from one await to the next in one step, and the   *)
(* calls of the three ports settle in between: getExportHash,              *)
(* putStorageBody, setExportHash and attachments.ensure either resolve or  *)
(* reject.  Several calls of sync can be in progress at once.              *)
(*                                                                         *)
(* computeExportHash is the SHA-256 digest in 64 hexadecimal digits: a     *)
(* text that is never empty and, for the bodies of the model, differs      *)
(* from body to body.  The model writes the digest of body b as sha256:b.  *)
(***************************************************************************)
MaxSyncCalls == 3

\* how many attachments a page of the model has
AttachmentCounts == {0, 1}

PageIds == {"1", "2"}

StorageBodies == {"<p>A</p>", "<p>B</p>"}

SyncSlots == {1, 2}

computeExportHash(storageHtml) == "sha256:" \o storageHtml

\* getExportHash resolves to null when no hash is stored
NoExportHash == ""

\* the body of a page that has none
NoBody == ""

\* !prevHash || String(prevHash) !== nextHash
bodyChanged_OnlyWhenAbsent(prevHash, nextHash) == prevHash = NoExportHash

bodyChanged(prevHash, nextHash) == prevHash = NoExportHash \/ prevHash # nextHash

SyncCallIdle ==
    [pc |-> "idle", pageId |-> "", storageHtml |-> "", attachments |-> 0, nextHash |-> "",
     prevHash |-> "", updatedBody |-> FALSE, uploaded |-> 0]

NoHistory == [written |-> {}, last |-> NoBody, overlapped |-> FALSE, hashLost |-> FALSE]

InProgress(c) == synCalls[c].pc \notin {"idle", "returned", "rejected"}

SyncIdle ==
    /\ synProps = <<>>
    /\ synPages = <<>>
    /\ synCalls = <<>>
    /\ synStarted = 0
    /\ synHistory = <<>>

SyncInit ==
    /\ synProps = [p \in PageIds |-> NoExportHash]
    /\ synPages = [p \in PageIds |-> NoBody]
    /\ synCalls = [c \in SyncSlots |-> SyncCallIdle]
    /\ synStarted = 0
    /\ synHistory = [p \in PageIds |-> NoHistory]

SyncUnchanged ==
    UNCHANGED <<dtdVars, xsdVars, valVars, sanVars, parseVars, bldVars, renVars, strVars, sizeVars>>

\* the call sync(page, target), up to the await of getExportHash: the digest
\* of page.storageHtml is taken
SyncCall(c, pageId, storageHtml, attachments) ==
    /\ ~InProgress(c)
    /\ synStarted < MaxSyncCalls
    /\ synStarted' = synStarted + 1
    /\ synCalls' = [synCalls EXCEPT ![c] =
                       [SyncCallIdle EXCEPT !.pc = "getExportHash", !.pageId = pageId,
                                            !.storageHtml = storageHtml,
                                            !.attachments = attachments,
                                            !.nextHash = computeExportHash(storageHtml)]]
    /\ synHistory' = [synHistory EXCEPT ![pageId].overlapped =
                          @ \/ \E d \in SyncSlots \ {c} :
                                   InProgress(d) /\ synCalls[d].pageId = pageId]
    /\ UNCHANGED <<synProps, synPages>>
    /\ SyncUnchanged

\* where the call goes on after step 2: to the attachments, or to its end
afterBody(call) == IF call.attachments > 0 THEN "ensure" ELSE "returned"

\* getExportHash has resolved: prevHash is read and compared
GetExportHashResolves(c) ==
    /\ synCalls[c].pc = "getExportHash"
    /\ LET prevHash == synProps[synCalls[c].pageId]
       IN synCalls' = [synCalls EXCEPT ![c].prevHash = prevHash,
                          ![c].pc = IF bodyChanged(prevHash, synCalls[c].nextHash)
                                    THEN "putStorageBody" ELSE afterBody(synCalls[c])]
    /\ UNCHANGED <<synProps, synPages, synStarted, synHistory>>
    /\ SyncUnchanged

\* putStorageBody has resolved: the body of the page is the new body
PutStorageBodyResolves(c) ==
    /\ synCalls[c].pc = "putStorageBody"
    /\ synPages' = [synPages EXCEPT ![synCalls[c].pageId] = synCalls[c].storageHtml]
    /\ synCalls' = [synCalls EXCEPT ![c].pc = "setExportHash"]
    /\ synHistory' = [synHistory EXCEPT
                         ![synCalls[c].pageId].written = @ \cup {synCalls[c].storageHtml},
                         ![synCalls[c].pageId].last = synCalls[c].storageHtml,
                         ![synCalls[c].pageId].hashLost = TRUE]
    /\ UNCHANGED <<synProps, synStarted>>
    /\ SyncUnchanged

\* setExportHash has resolved: the hash is stored, updatedBody = true
SetExportHashResolves(c) ==
    /\ synCalls[c].pc = "setExportHash"
    /\ synProps' = [synProps EXCEPT ![synCalls[c].pageId] = synCalls[c].nextHash]
    /\ synCalls' = [synCalls EXCEPT ![c].updatedBody = TRUE, ![c].pc = afterBody(synCalls[c])]
    /\ synHistory' = [synHistory EXCEPT ![synCalls[c].pageId].hashLost = FALSE]
    /\ UNCHANGED <<synPages, synStarted>>
    /\ SyncUnchanged

\* attachments.ensure has resolved for one attachment of the page
EnsureResolves(c) ==
    /\ synCalls[c].pc = "ensure"
    /\ synCalls' = [synCalls EXCEPT
                       ![c].uploaded = @ + 1,
                       ![c].pc = IF synCalls[c].uploaded + 1 < synCalls[c].attachments
                                 THEN "ensure" ELSE "returned"]
    /\ UNCHANGED <<synProps, synPages, synStarted, synHistory>>
    /\ SyncUnchanged

\* the port call that sync awaits has rejected: sync rejects with its error
PortRejects(c) ==
    /\ synCalls[c].pc \in {"getExportHash", "putStorageBody", "setExportHash", "ensure"}
    /\ synCalls' = [synCalls EXCEPT ![c].pc = "rejected"]
    /\ UNCHANGED <<synProps, synPages, synStarted, synHistory>>
    /\ SyncUnchanged

NextSync ==
    \/ \E c \in SyncSlots, pageId \in PageIds, storageHtml \in StorageBodies,
           attachments \in AttachmentCounts :
          SyncCall(c, pageId, storageHtml, attachments)
    \/ \E c \in SyncSlots : GetExportHashResolves(c)
    \/ \E c \in SyncSlots : PutStorageBodyResolves(c)
    \/ \E c \in SyncSlots : SetExportHashResolves(c)
    \/ \E c \in SyncSlots : EnsureResolves(c)
    \/ \E c \in SyncSlots : PortRejects(c)

(***************************************************************************)
(* getOriginalSize (part_001), with the maps sizeCache and sizePending of  *)
(* the module.  The function is async: a call runs up to its await in one  *)
(* step, the read of the file settles in a step of its own, and a call     *)
(* goes on after its await in a later step.  The function that makes the   *)
(* promise pending runs, inside the call, up to the await of readFile.     *)
(***************************************************************************)
MaxSizeCalls == 3

SizeSlots == {1, 2, 3}

ImageFiles == {"a.png", "b.png"}

imagesDir == "images"

\* path.join(imagesDir, file)
joinPath(dir, file) == dir \o "/" \o file

ImagePaths == { joinPath(imagesDir, f) : f \in ImageFiles }

\* the reader handed to the call: a function, or null
Readers == {"readFile", "null"}

\* what imageSize makes of the bytes read: a width and a height
ImageSizes == { [width |-> 2, height |-> 3], [width |-> 0, height |-> 3] }

\* n || undefined
orUndefined(n) == IF n = 0 THEN Undef ELSE Def(n)

Size(w, h) == [w |-> w, h |-> h]

EmptySize == Size(Undef, Undef)

\* the catch clause falls through to sizeCache.set(filePath, out)
cacheEmptySize_Never(cache, filePath) == cache

cacheEmptySize(cache, filePath) == MapPut(cache, filePath, EmptySize)

\* a promise of a size; outcome records how it came to its value: "noReader",
\* "measured" or "failed"
SizePromise(filePath, state, value, outcome) ==
    [filePath |-> filePath, state |-> state, value |-> value, outcome |-> outcome]

\* via records how the call came to its result: "cached", "shared" or "own"
SizeCallIdle ==
    [pc |-> "idle", filePath |-> "", reader |-> "", promise |-> 0, result |-> EmptySize,
     via |-> ""]

SizeIdle ==
    /\ sizeCache = <<>>
    /\ sizePending = <<>>
    /\ sizePromises = <<>>
    /\ sizeCalls = <<>>
    /\ sizeReads = <<>>
    /\ sizeStarted = 0

SizeInit ==
    /\ sizeCache = <<>>
    /\ sizePending = <<>>
    /\ sizePromises = <<>>
    /\ sizeCalls = [c \in SizeSlots |-> SizeCallIdle]
    /\ sizeReads = <<>>
    /\ sizeStarted = 0

SizeUnchanged ==
    UNCHANGED <<dtdVars, xsdVars, valVars, sanVars, parseVars, bldVars, renVars, strVars, synVars>>

\* the call getOriginalSize(file, readFile, imagesDir), up to its return or
\* its await
GetOriginalSize(c, file, readFile) ==
    LET filePath == joinPath(imagesDir, file)
        call == [SizeCallIdle EXCEPT !.filePath = filePath, !.reader = readFile]
        made == Len(sizePromises) + 1
    IN /\ sizeCalls[c].pc \in {"idle", "returned"}
       /\ sizeStarted < MaxSizeCalls
       /\ sizeStarted' = sizeStarted + 1
       /\ IF filePath \in DOMAIN sizeCache
          THEN /\ sizeCalls' = [sizeCalls EXCEPT ![c] =
                                  [call EXCEPT !.pc = "returned", !.result = sizeCache[filePath],
                                               !.via = "cached"]]
               /\ UNCHANGED <<sizeCache, sizePending, sizePromises, sizeReads>>
          ELSE IF filePath \in DOMAIN sizePending
          THEN /\ sizeCalls' = [sizeCalls EXCEPT ![c] =
                                  [call EXCEPT !.pc = "awaitShared", !.via = "shared",
                                               !.promise = sizePending[filePath]]]
               /\ UNCHANGED <<sizeCache, sizePending, sizePromises, sizeReads>>
          ELSE /\ sizePromises' =
                    Append(sizePromises,
                           IF readFile = "null"
                           THEN SizePromise(filePath, "resolved", EmptySize, "noReader")
                           ELSE SizePromise(filePath, "reading", EmptySize, ""))
               /\ sizeReads' = IF readFile = "null" THEN sizeReads
                                ELSE Append(sizeReads, filePath)
               /\ sizePending' = MapPut(sizePending, filePath, made)
               /\ sizeCalls' = [sizeCalls EXCEPT ![c] =
                                  [call EXCEPT !.pc = "awaitOwn", !.via = "own", !.promise = made]]
               /\ UNCHANGED sizeCache
       /\ SizeUnchanged

\* readFile has resolved and imageSize has measured the bytes
ReadResolves(k, measured) ==
    LET out == Size(orUndefined(measured.width), orUndefined(measured.height))
    IN /\ k \in 1..Len(sizePromises)
       /\ sizePromises[k].state = "reading"
       /\ sizeCache' = MapPut(sizeCache, sizePromises[k].filePath, out)
       /\ sizePromises' = [sizePromises EXCEPT ![k].state = "resolved", ![k].value = out,
                                               ![k].outcome = "measured"]
       /\ UNCHANGED <<sizePending, sizeCalls, sizeReads, sizeStarted>>
       /\ SizeUnchanged

\* readFile has rejected, or imageSize has thrown
ReadFails(k) ==
    /\ k \in 1..Len(sizePromises)
    /\ sizePromises[k].state = "reading"
    /\ sizeCache' = cacheEmptySize(sizeCache, sizePromises[k].filePath)
    /\ sizePromises' = [sizePromises EXCEPT ![k].state = "resolved", ![k].value = EmptySize,
                                            ![k].outcome = "failed"]
    /\ UNCHANGED <<sizePending, sizeCalls, sizeReads, sizeStarted>>
    /\ SizeUnchanged

\* Map.delete
MapDelete(f, k) == [x \in DOMAIN f \ {k} |-> f[x]]

\* the call goes on after its await: the call that made the promise deletes
\* the entry of sizePending in its finally clause
SizeAwaited(c) ==
    /\ sizeCalls[c].pc \in {"awaitOwn", "awaitShared"}
    /\ sizePromises[sizeCalls[c].promise].state = "resolved"
    /\ sizeCalls' = [sizeCalls EXCEPT ![c].pc = "returned",
                                        ![c].result = sizePromises[sizeCalls[c].promise].value]
    /\ sizePending' = IF sizeCalls[c].pc = "awaitOwn"
                       THEN MapDelete(sizePending, sizeCalls[c].filePath)
                       ELSE sizePending
    /\ UNCHANGED <<sizeCache, sizePromises, sizeReads, sizeStarted>>
    /\ SizeUnchanged

NextSize ==
    \/ \E c \in SizeSlots, file \in ImageFiles, readFile \in Readers :
          GetOriginalSize(c, file, readFile)
    \/ \E k \in 1..MaxSizeCalls, measured \in ImageSizes : ReadResolves(k, measured)
    \/ \E k \in 1..MaxSizeCalls : ReadFails(k)
    \/ \E c \in SizeSlots : SizeAwaited(c)

(***************************************************************************)
(* Specifications, one per area.                                           *)
(***************************************************************************)
InitDtdMatch == DtdInit /\ XsdIdle /\ ValIdle /\ SanIdle /\ ParseIdle /\ XsdBuildIdle /\ RenderIdle /\ StreamIdle /\ SyncIdle /\ SizeIdle

SpecDtdMatch == InitDtdMatch /\ [][MatchesDtdModel]_vars

InitXsdMatch == XsdInit /\ DtdIdle /\ ValIdle /\ SanIdle /\ ParseIdle /\ XsdBuildIdle /\ RenderIdle /\ StreamIdle /\ SyncIdle /\ SizeIdle

SpecXsdMatch == InitXsdMatch /\ [][MatchesParticle]_vars

InitXsdSubst == XsdSubstInit /\ DtdIdle /\ ValIdle /\ SanIdle /\ ParseIdle /\ XsdBuildIdle /\ RenderIdle /\ StreamIdle /\ SyncIdle /\ SizeIdle

SpecXsdSubst == InitXsdSubst /\ [][MatchesParticle]_vars

InitDtdMixed == DtdMixedInit /\ DtdIdle /\ XsdIdle /\ SanIdle /\ ParseIdle /\ XsdBuildIdle /\ RenderIdle /\ StreamIdle /\ SyncIdle /\ SizeIdle

NextDtdMixed == BuildDtdIndex \/ ValidateAgainstDtd

SpecDtdMixed == InitDtdMixed /\ [][NextDtdMixed]_vars

InitValidate == ValidateInit /\ DtdIdle /\ XsdIdle /\ SanIdle /\ ParseIdle /\ XsdBuildIdle /\ RenderIdle /\ StreamIdle /\ SyncIdle /\ SizeIdle

NextValidate == BuildDtdIndex \/ ValidateAgainstDtd \/ ValidateAgainstXsd

SpecValidate == InitValidate /\ [][NextValidate]_vars

InitSanContainers == SanContainersInit /\ DtdIdle /\ XsdIdle /\ ValIdle /\ ParseIdle /\ XsdBuildIdle /\ RenderIdle /\ StreamIdle /\ SyncIdle /\ SizeIdle

SpecSanContainers == InitSanContainers /\ [][PreSanitize]_vars

InitSanEntities == SanEntitiesInit /\ DtdIdle /\ XsdIdle /\ ValIdle /\ ParseIdle /\ XsdBuildIdle /\ RenderIdle /\ StreamIdle /\ SyncIdle /\ SizeIdle

SpecSanEntities == InitSanEntities /\ [][NormalizeEntitiesAndAmpersands]_vars

InitSanitize == SanitizeInit /\ DtdIdle /\ XsdIdle /\ ValIdle /\ ParseIdle /\ XsdBuildIdle /\ RenderIdle /\ StreamIdle /\ SyncIdle /\ SizeIdle

SpecSanitize == InitSanitize /\ [][PreSanitize]_vars

InitSanTwice == SanTwiceInit /\ DtdIdle /\ XsdIdle /\ ValIdle /\ ParseIdle /\ XsdBuildIdle /\ RenderIdle /\ StreamIdle /\ SyncIdle /\ SizeIdle

NextSanTwice == PreSanitize \/ PreSanitizeAgain

SpecSanTwice == InitSanTwice /\ [][NextSanTwice]_vars

InitSanWellFormed == SanWellFormedInit /\ DtdIdle /\ XsdIdle /\ ValIdle /\ ParseIdle /\ XsdBuildIdle /\ RenderIdle /\ StreamIdle /\ SyncIdle /\ SizeIdle

SpecSanWellFormed == InitSanWellFormed /\ [][PreSanitize]_vars

InitSanStages == SanStagesInit /\ DtdIdle /\ XsdIdle /\ ValIdle /\ ParseIdle /\ XsdBuildIdle /\ RenderIdle /\ StreamIdle /\ SyncIdle /\ SizeIdle

NextSanStages == PreSanitize \/ RepairInvalidComments \/ MaskAndRestore

SpecSanStages == InitSanStages /\ [][NextSanStages]_vars

InitDtdDecls == DtdDeclsInit /\ DtdIdle /\ XsdIdle /\ SanIdle /\ ParseIdle /\ XsdBuildIdle /\ RenderIdle /\ StreamIdle /\ SyncIdle /\ SizeIdle

SpecDtdDecls == InitDtdDecls /\ [][BuildDtdIndex]_vars

InitXsdGroups == XsdGroupsInit /\ DtdIdle /\ ValIdle /\ SanIdle /\ ParseIdle /\ XsdBuildIdle /\ RenderIdle /\ StreamIdle /\ SyncIdle /\ SizeIdle

SpecXsdGroups == InitXsdGroups /\ [][MatchesParticle]_vars

InitXsdSubstBuild == XsdSubstBuildInit /\ OtherIdle /\ ParseIdle /\ RenderIdle /\ StreamIdle /\ SyncIdle /\ SizeIdle

SpecXsdSubstBuild == InitXsdSubstBuild /\ [][BuildXsdIndex]_vars

InitXsdOrder == XsdOrderInit /\ DtdIdle /\ XsdIdle /\ SanIdle /\ ParseIdle /\ XsdBuildIdle /\ RenderIdle /\ StreamIdle /\ SyncIdle /\ SizeIdle

SpecXsdOrder == InitXsdOrder /\ [][ValidateAgainstXsd]_vars

InitSync == SyncInit /\ OtherIdle /\ ParseIdle /\ XsdBuildIdle /\ RenderIdle /\ StreamIdle /\ SizeIdle

SpecSync == InitSync /\ [][NextSync]_vars

InitSize == SizeInit /\ OtherIdle /\ ParseIdle /\ XsdBuildIdle /\ RenderIdle /\ StreamIdle /\ SyncIdle

SpecSize == InitSize /\ [][NextSize]_vars

InitParse == ParseInit /\ OtherIdle /\ XsdBuildIdle /\ RenderIdle /\ StreamIdle /\ SyncIdle /\ SizeIdle

NextParse == Parse \/ FetchSettles \/ ParseResumes

SpecParse == InitParse /\ [][NextParse]_vars

InitDtdModels == DtdModelsInit /\ DtdIdle /\ XsdIdle /\ SanIdle /\ ParseIdle /\ XsdBuildIdle /\ RenderIdle /\ StreamIdle /\ SyncIdle /\ SizeIdle

SpecDtdModels == InitDtdModels /\ [][BuildDtdIndex]_vars

InitRender == RenderInit /\ OtherIdle /\ ParseIdle /\ XsdBuildIdle /\ StreamIdle /\ SyncIdle /\ SizeIdle

NextRender == RenderXast \/ RenderSettles

SpecRender == InitRender /\ [][NextRender]_vars

InitStream == StreamInit /\ OtherIdle /\ ParseIdle /\ XsdBuildIdle /\ RenderIdle /\ SyncIdle /\ SizeIdle

SpecStream == InitStream /\ [][StreamStep]_vars

InitXsdBuild == XsdBuildInit /\ OtherIdle /\ ParseIdle /\ RenderIdle /\ StreamIdle /\ SyncIdle /\ SizeIdle

SpecXsdBuild == InitXsdBuild /\ [][BuildXsdIndex]_vars


(***************************************************************************)
(* C1.  The regular language a DTD content model denotes, stated on words  *)
(* and their splits, with no positions and no loop guards.                 *)
(***************************************************************************)
RECURSIVE DtdLang(_, _)
RECURSIVE DtdOnceLang(_, _)
RECURSIVE DtdStarLang(_, _)
RECURSIVE DtdSeqLang(_, _, _)

\* one occurrence of the node, its qualifier left aside
DtdOnceLang(node, w) ==
    CASE node.kind = "NAME" -> w = <<node.name>>
      [] node.kind = "PCDATA" -> w = <<>>
      [] node.kind = "SEQ" -> DtdSeqLang(node.items, 1, w)
      [] node.kind = "CHOICE" -> \E k \in 1..Len(node.items) : DtdLang(node.items[k], w)

\* concatenation of the languages of items[k..]
DtdSeqLang(items, k, w) ==
    IF k > Len(items) THEN w = <<>>
    ELSE \E j \in 0..Len(w) :
            /\ DtdLang(items[k], SubSeq(w, 1, j))
            /\ DtdSeqLang(items, k + 1, SubSeq(w, j + 1, Len(w)))

\* Kleene star: the empty word, or a non-empty first piece and a rest
DtdStarLang(node, w) ==
    \/ w = <<>>
    \/ \E j \in 1..Len(w) :
            /\ DtdOnceLang(node, SubSeq(w, 1, j))
            /\ DtdStarLang(node, SubSeq(w, j + 1, Len(w)))

DtdLang(node, w) ==
    CASE node.occurs = "1" -> DtdOnceLang(node, w)
      [] node.occurs = "?" -> w = <<>> \/ DtdOnceLang(node, w)
      [] node.occurs = "*" -> DtdStarLang(node, w)
      [] node.occurs = "+" ->
             \E j \in 0..Len(w) :
                /\ DtdOnceLang(node, SubSeq(w, 1, j))
                /\ DtdStarLang(node, SubSeq(w, j + 1, Len(w)))

\* C1: matchesDtdModel accepts a child sequence exactly when the whole
\* sequence belongs to the regular language of the model; for (a,b*,c?) it
\* accepts [a] and [a,b,b,c] and rejects [b,a] and [a,c,b].
C1_DtdMatchIsLanguage ==
    dtdOk # "pending" =>
        /\ dtdOk = Verdict(DtdLang(dtdModel, dtdChildren))
        /\ dtdModel = DtdExample =>
              /\ dtdChildren \in {<<"a">>, <<"a", "b", "b", "c">>} => dtdOk = "true"
              /\ dtdChildren \in {<<"b", "a">>, <<"a", "c", "b">>} => dtdOk = "false"

C1_Witness ==
    /\ dtdModel = DtdExample
    /\ dtdChildren = <<"a", "b", "b", "c">>
    /\ dtdOk = "true"


(***************************************************************************)
(* C2.  The language of an XSD particle tree of element, any, sequence and *)
(* choice nodes: each node repeated n times, min <= n <= max.              *)
(***************************************************************************)
RECURSIVE XsdLang(_, _)
RECURSIVE XsdOnceLang(_, _)
RECURSIVE XsdPowLang(_, _, _)
RECURSIVE XsdUpToLang(_, _, _)
RECURSIVE XsdSeqLang(_, _, _)

\* n occurrences of the node, one after the other
XsdPowLang(node, n, w) ==
    IF n = 0 THEN w = <<>>
    ELSE \E j \in 0..Len(w) :
            /\ XsdOnceLang(node, SubSeq(w, 1, j))
            /\ XsdPowLang(node, n - 1, SubSeq(w, j + 1, Len(w)))

\* at most k further occurrences, none of them empty (an empty occurrence
\* can be left out of a count that has room below it)
XsdUpToLang(node, k, w) ==
    \/ w = <<>>
    \/ /\ k > 0
       /\ \E j \in 1..Len(w) :
             /\ XsdOnceLang(node, SubSeq(w, 1, j))
             /\ XsdUpToLang(node, k - 1, SubSeq(w, j + 1, Len(w)))

\* n occurrences for some n with lo <= n <= hi (no upper limit when hi is
\* Unbounded): lo occurrences, then at most hi - lo non-empty ones
XsdRepLang(node, lo, hi, w) ==
    \E j \in 0..Len(w) :
        /\ XsdPowLang(node, lo, SubSeq(w, 1, j))
        /\ XsdUpToLang(node, IF hi = Unbounded THEN Len(w) ELSE hi - lo,
                       SubSeq(w, j + 1, Len(w)))

XsdOnceLang(node, w) ==
    CASE node.kind = "element" -> w = <<node.name>>
      [] node.kind = "any" -> Len(w) = 1
      [] node.kind = "sequence" -> XsdSeqLang(node.items, 1, w)
      [] node.kind = "choice" -> \E k \in 1..Len(node.items) : XsdLang(node.items[k], w)
      [] OTHER -> FALSE

XsdSeqLang(items, k, w) ==
    IF k > Len(items) THEN w = <<>>
    ELSE \E j \in 0..Len(w) :
            /\ XsdLang(items[k], SubSeq(w, 1, j))
            /\ XsdSeqLang(items, k + 1, SubSeq(w, j + 1, Len(w)))

XsdLang(node, w) == XsdRepLang(node, node.occurs.min, node.occurs.max, w)

\* what an occurrence attribute stands for: a missing one counts as 1
AttrMeans(a) == IF a.k = "num" THEN a.n ELSE IF a.k = "unbounded" THEN Unbounded ELSE 1

\* C2: for a tree of element, any, sequence and choice particles with
\* max >= min or unbounded, matchesParticle is true exactly when the whole
\* child sequence can be consumed with each node repeated n times,
\* min <= n <= max; a missing minOccurs / maxOccurs counts as 1.
C2_XsdMatchIsLanguage ==
    (xsdOk # "pending" /\ xsdParticle.kind \in {"element", "any", "sequence", "choice"}) =>
        xsdOk = Verdict(XsdRepLang(xsdParticle, AttrMeans(xsdMinAttr),
                                   AttrMeans(xsdMaxAttr), xsdChildren))

C2_Witness ==
    /\ xsdParticle.kind = "sequence"
    /\ xsdMinAttr = AttrNum(2)
    /\ xsdMaxAttr = AttrUnbounded
    /\ Len(xsdChildren) = 3
    /\ xsdOk = "true"

(***************************************************************************)
(* C3.  xs:all over element items.                                         *)
(***************************************************************************)
\* every child name is the name of an item, and for each item the number of
\* children with its name lies within the item's own min..max
AllAccepts(items, w) ==
    /\ \A j \in 1..Len(w) : \E k \in 1..Len(items) : items[k].name = w[j]
    /\ \A k \in 1..Len(items) :
          LET c == Cardinality({ j \in 1..Len(w) : w[j] = items[k].name })
          IN  /\ c >= items[k].occurs.min
              /\ items[k].occurs.max = Unbounded \/ c <= items[k].occurs.max

\* C3 as stated: an xs:all particle whose items are element particles
\* accepts a child sequence exactly when every child name is the name of an
\* item and each item's count lies within the item's own min..max.
C3_AllAsStated ==
    (xsdOk # "pending" /\ xsdParticle.kind = "all") =>
        xsdOk = Verdict(AllAccepts(xsdParticle.items, xsdChildren))

\* C3 amended: the same for an xs:all particle that itself occurs exactly
\* once (minOccurs = maxOccurs = 1, the default); for
\* all(element a {1,1}, element b {0,1}) the sequences [a], [b,a] and [a,b]
\* are accepted and [a,a] and [c] are rejected.
C3_AllOccurringOnce ==
    (xsdOk # "pending" /\ xsdParticle.kind = "all" /\ xsdParticle.occurs = Occ(1, 1)) =>
        /\ xsdOk = Verdict(AllAccepts(xsdParticle.items, xsdChildren))
        /\ xsdParticle = XsdAllExample =>
              /\ xsdChildren \in {<<"a">>, <<"b", "a">>, <<"a", "b">>} => xsdOk = "true"
              /\ xsdChildren \in {<<"a", "a">>, <<"c">>} => xsdOk = "false"

C3_Witness ==
    /\ xsdParticle = XsdAllExample
    /\ xsdChildren = <<"b", "a">>
    /\ xsdOk = "true"

(***************************************************************************)
(* C4.  Substitution groups during content matching.                       *)
(***************************************************************************)
\* the child list with every y put back to its head x
HeadsFor(w) == [j \in 1..Len(w) |-> IF w[j] = "y" THEN "x" ELSE w[j]]

\* C4: with y declared in the substitution group of x, a child named y is
\* accepted wherever an element particle requiring x is expected, in a
\* sequence, a choice or an xs:all group: a child list is accepted whenever
\* the list with x in the place of each y is.
C4_SubstitutionEverywhere ==
    (xsdOk # "pending" /\ xsdIndex = SubstIndex
        /\ matchesParticle(xsdParticle, HeadsFor(xsdChildren), xsdIndex))
    => xsdOk = "true"


(***************************************************************************)
(* C5.  Validation of an element declared with a mixed content model.      *)
(***************************************************************************)
\* the child elements of the root whose local name is not one of ns
Offending(ns) ==
    { k \in 1..Len(valRoot.children) :
        /\ valRoot.children[k].type = "element"
        /\ \A j \in 1..Len(ns) : localName(valRoot.children[k].name) # ns[j] }

\* the declared model of element p is ( #PCDATA | n1 | ... | nk )*
DeclaredMixed(ns) ==
    /\ Len(valDecls) > 0
    /\ \E sp \in {"", " "} : valDecls[1].model = MixedText(ns, sp)

\* C5 as stated, for every k >= 0: validation of an element declared
\* (#PCDATA|n1|...|nk)* reports one error for each child element whose name
\* is not among n1..nk (and so none when all are), whatever the order, the
\* count and the text between the children.
C5_MixedAsStated ==
    \A ns \in SeqsUpTo(MixedNamePool, MaxMixedNames) :
        (DeclaredMixed(ns) /\ valOutcome.state # "pending") =>
            Len(valOutcome.errors) = Cardinality(Offending(ns))

\* C5 for k >= 1: one error for each child element whose name is not among
\* n1..nk, at the path of that child and naming it, and no other error.
C5_MixedWithNames ==
    \A ns \in SeqsFromTo(MixedNamePool, 1, MaxMixedNames) :
        (DeclaredMixed(ns) /\ valOutcome.state # "pending") =>
            /\ Len(valOutcome.errors) = Cardinality(Offending(ns))
            /\ \A k \in Offending(ns) :
                  LET c == localName(valRoot.children[k].name)
                  IN SeqHas(valOutcome.errors,
                            ValidationError("/p/" \o c,
                               "Child <" \o c \o "> not allowed in mixed content of <p>"))

C5_Witness ==
    /\ DeclaredMixed(<<"b", "i">>)
    /\ valRoot.children = << ElementNode("i", <<>>, <<>>), TextNode("t"),
                             ElementNode("s", <<>>, <<>>) >>
    /\ valOutcome.state = "thrown"
    /\ Len(valOutcome.errors) = 1


(***************************************************************************)
(* Documents by position.  A position is the path of child indices from    *)
(* the root to a node; the documents have three levels.                    *)
(***************************************************************************)
RECURSIVE NodeAt(_, _)
NodeAt(el, ip) == IF ip = <<>> THEN el ELSE NodeAt(el.children[Head(ip)], Tail(ip))

\* the positions of the document in document order
DocPositions(root) ==
    << <<>> >>
    \o Flatten([i \in 1..Len(root.children) |->
                  << <<i>> >> \o [j \in 1..Len(root.children[i].children) |-> <<i, j>>]], 1)

IsElementAt(ip) == NodeAt(valRoot, ip).type = "element"

ElementPositions == SelectSeq(DocPositions(valRoot), IsElementAt)

RECURSIVE PathOf(_, _)
\* the path of the element at a position: /name/name/...
PathOf(el, ip) ==
    "/" \o localName(el.name)
        \o (IF ip = <<>> THEN "" ELSE PathOf(el.children[Head(ip)], Tail(ip)))

RECURSIVE ReplaceAt(_, _, _)
ReplaceAt(el, ip, new) ==
    IF ip = <<>> THEN new
    ELSE [el EXCEPT !.children[Head(ip)] = ReplaceAt(@, Tail(ip), new)]

\* the document with the attribute a = "1" added to the element at ip
WithAttrAt(ip, a) ==
    LET el == NodeAt(valRoot, ip)
    IN ReplaceAt(valRoot, ip, [el EXCEPT !.attributes = Append(@, Attr(a, "1"))])

HasOwnAttr(el, a) == \E k \in 1..Len(el.attributes) : el.attributes[k].name = a

\* the schema of the call declares attribute a required on the element
DeclaredRequired(call, el, a) ==
    LET n == localName(el.name)
    IN IF call = "validateAgainstDtd"
       THEN n \in DOMAIN valDtd.elements /\ SeqHas(valDtd.elements[n].requiredAttrs, a)
       ELSE LET r == resolveElementDef(n, valXsd)
            IN r.found /\ \E k \in 1..Len(r.def.attributes) :
                              r.def.attributes[k].name = a /\ r.def.attributes[k].use = "required"

\* the outcome of the same call on another document
OutcomeOn(call, root) ==
    IF call = "validateAgainstDtd" THEN validateAgainstDtd(root, valExpectedRoot, valDtd)
    ELSE validateAgainstXsd(root, valExpectedRoot, valXsd)

(***************************************************************************)
(* C6.  A missing required attribute on an otherwise valid element.        *)
(***************************************************************************)
\* C6: when an element lacks an attribute its declaration requires
\* (#REQUIRED in the DTD, use="required" in the XSD) and the document is
\* valid once that attribute is added, validation reports exactly one
\* violation, at that element, whose message names the attribute and the
\* element.
C6_MissingRequiredAttribute ==
    valOutcome.state # "pending" =>
        \A k \in 1..Len(ElementPositions) : \A a \in RequiredAttrPool :
            LET ip == ElementPositions[k]
                el == NodeAt(valRoot, ip)
            IN (/\ ~HasOwnAttr(el, a)
                /\ DeclaredRequired(valOutcome.call, el, a)
                /\ OutcomeOn(valOutcome.call, WithAttrAt(ip, a)).state = "returned")
               => valOutcome.errors =
                     << ValidationError(PathOf(valRoot, ip),
                                        MissingRequiredMsg(a, localName(el.name))) >>


(***************************************************************************)
(* C7.  Every element is visited, every violation collected, one error     *)
(* thrown.                                                                 *)
(***************************************************************************)
\* the violations of the element at ip taken on its own
ViolationsAt(call, ip) ==
    LET el == NodeAt(valRoot, ip)
        n == localName(el.name)
        here == PathOf(valRoot, ip)
        r == resolveElementDef(n, valXsd)
    IN (IF ip = <<>> /\ n # valExpectedRoot
          THEN << ValidationError(here, "Root must be <" \o valExpectedRoot \o ">") >>
          ELSE <<>>)
       \o (IF call = "validateAgainstDtd"
             THEN IF n \notin DOMAIN valDtd.elements
                     THEN << ValidationError(here, "Element <" \o n \o "> not declared in DTD") >>
                     ELSE validateAttrs(el, valDtd.elements[n], here)
                          \o validateChildren(el, valDtd.elements[n], here)
             ELSE IF ~r.found
                     THEN << ValidationError(here, "Element <" \o n \o "> not declared in XSD") >>
                     ELSE xsdValidateAttrs(el, n, r.def, here)
                          \o xsdValidateChildren(el, n, r.def, here, valXsd))

\* the violations of all the elements of the document, in document order
AllViolations(call) ==
    Flatten([k \in 1..Len(ElementPositions) |-> ViolationsAt(call, ElementPositions[k])], 1)

RECURSIVE SplitLines(_)
\* the lines of a text
SplitLines(s) ==
    LET i == IndexOfFrom(s, "\n", 0)
    IN IF i < 0 THEN <<s>> ELSE <<StrSlice(s, 0, i)>> \o SplitLines(StrFrom(s, i + 1))

FailedHeader(call) ==
    IF call = "validateAgainstDtd" THEN "DTD validation failed:" ELSE "XSD validation failed:"

\* C7: validateAgainstDtd and validateAgainstXsd collect the violations of
\* every element of the document, the descendants of an undeclared element
\* included; they return normally exactly when there is none, and otherwise
\* throw one error whose message has, after its heading, one line
\* "- path: message" for each violation.
C7_AllViolationsOneError ==
    valOutcome.state # "pending" =>
        LET expected == AllViolations(valOutcome.call)
            lines == SplitLines(valOutcome.message)
        IN /\ valOutcome.errors = expected
           /\ valOutcome.state = "returned" <=> expected = <<>>
           /\ valOutcome.state = "thrown" =>
                 /\ Len(lines) = 1 + Len(expected)
                 /\ lines[1] = FailedHeader(valOutcome.call)
                 /\ \A k \in 1..Len(expected) :
                       lines[k + 1] = "- " \o expected[k].path \o ": " \o expected[k].msg

\* a violation below an undeclared element is reported beside the others
C7_Witness ==
    /\ valOutcome.state = "thrown"
    /\ valRoot.name = "r"
    /\ \E k \in 1..Len(valOutcome.errors) :
          valOutcome.errors[k] = ValidationError("/r/c", "Element <c> not declared in DTD")
    /\ \E k \in 1..Len(valOutcome.errors) :
          valOutcome.errors[k] =
             ValidationError("/r/c/a", "Missing required attribute \"id\" on <a>")
    /\ Len(SplitLines(valOutcome.message)) = 1 + Len(valOutcome.errors)

(***************************************************************************)
(* C8.  What the container policy yields for a tree of tags, stated on the *)
(* tree: every tag is judged where it stands, by the kind of the container *)
(* around it.                                                              *)
(***************************************************************************)
RichContainerNames == { DEFAULTS.richTextContainers[k] : k \in 1..Len(DEFAULTS.richTextContainers) }

InlineContainerNames ==
    { DEFAULTS.inlineTextContainers[k] : k \in 1..Len(DEFAULTS.inlineTextContainers) }

RichAllowList == { ALLOW_RICH_DEFAULT[k] : k \in 1..Len(ALLOW_RICH_DEFAULT) }

InlineAllowList == { ALLOW_INLINE_DEFAULT[k] : k \in 1..Len(ALLOW_INLINE_DEFAULT) }

\* "rich" or "inline" for a configured container name, "none" otherwise
KindOfContainer(local) ==
    IF local \in RichContainerNames THEN "rich"
    ELSE IF local \in InlineContainerNames THEN "inline"
    ELSE "none"

\* a tag with each "<" and ">" replaced by "&lt;" and "&gt;"
AsLiteralText(t) == replaceAllFrom(replaceAllFrom(t, "<", "&lt;", 0), ">", "&gt;", 0)

IsPrefixed(name) == \E k \in 1..Len(name.q) : SubSeq(name.q, k, k) = ":"

\* a tag that is not a container's own, inside a container of the given
\* kind ("none" outside every container)
TagAsPolicy(tagText, name, kind) ==
    IF kind = "none" \/ IsPrefixed(name) THEN tagText
    ELSE IF name.local \in (IF kind = "rich" THEN RichAllowList ELSE InlineAllowList)
    THEN tagText
    ELSE AsLiteralText(tagText)

\* the kind of the container a child of an element named local stands in,
\* the element itself standing in one of the given kind; when everything
\* inside a rich-text container counts as inside it (nested), the kind
\* stays "rich" below an inline container too
KindBelow(local, kind, nested) ==
    IF KindOfContainer(local) = "none" THEN kind
    ELSE IF nested /\ kind = "rich" THEN "rich"
    ELSE KindOfContainer(local)

RECURSIVE PolicyText(_, _, _)
RECURSIVE PolicyTexts(_, _, _, _)
PolicyText(node, kind, nested) ==
    CASE node.shape = "text" -> node.name.q
      [] node.shape = "empty" ->
             IF KindOfContainer(node.name.local) # "none" THEN EmptyTagOf(node)
             ELSE TagAsPolicy(EmptyTagOf(node), node.name, kind)
      [] node.shape = "open" -> TagAsPolicy(OpenTagOf(node), node.name, kind)
      [] node.shape = "element" ->
             IF KindOfContainer(node.name.local) # "none"
             THEN OpenTagOf(node)
                  \o PolicyTexts(node.kids, 1, KindBelow(node.name.local, kind, nested), nested)
                  \o CloseTagOf(node)
             ELSE TagAsPolicy(OpenTagOf(node), node.name, kind)
                  \o PolicyTexts(node.kids, 1, kind, nested)
                  \o TagAsPolicy(CloseTagOf(node), node.name, kind)

PolicyTexts(kids, k, kind, nested) ==
    IF k > Len(kids) THEN ""
    ELSE PolicyText(kids[k], kind, nested) \o PolicyTexts(kids, k + 1, kind, nested)

\* C8 as stated: under the default configuration preSanitize copies the
\* tags of a container, copies every un-prefixed tag inside a rich-text
\* container whose local name is on the rich allow-list, and rewrites every
\* un-prefixed tag that is neither on that list nor a container name into
\* literal text, wherever inside the rich-text container the tag stands
C8_RichPolicyEverywhereInside ==
    sanOutcome.state # "pending" =>
        sanOutcome = SanReturned("preSanitize", PolicyText(sanSource, "none", TRUE), <<>>)

\* C8, amended: under the default configuration preSanitize copies the
\* tags of a container, and judges every un-prefixed tag by the innermost
\* container open around it: in a rich-text container it copies a tag
\* whose local name is on the rich allow-list, in an inline container (p)
\* one whose local name is on the inline allow-list, and it rewrites every
\* other un-prefixed tag into literal text, "<" as "&lt;" and ">" as "&gt;"
C8_PolicyOfInnermostContainer ==
    sanOutcome.state # "pending" =>
        sanOutcome = SanReturned("preSanitize", PolicyText(sanSource, "none", FALSE), <<>>)

\* the example of the specification has been sanitized: b is copied,
\* unknown is literal text, the container tags are kept
C8_Witness ==
    /\ sanSource = SanExample
    /\ sanXml = "<documentation>Hello <b>world</b> <unknown>x</unknown></documentation>"
    /\ sanOutcome.state = "returned"
    /\ sanOutcome.value =
           "<documentation>Hello <b>world</b> &lt;unknown&gt;x&lt;/unknown&gt;</documentation>"

(***************************************************************************)
(* C9.  What the entity stage yields for a list of tokens, token by token. *)
(***************************************************************************)
\* the entity table as a list of entries: the built-in ones, then the
\* ones of the options
TableOf(opts) == BUILTIN_ENTITIES \o opts.namedEntities.value

InTable(table, name) == \E k \in 1..Len(table) : table[k].name = name

CodeInTable(table, name) ==
    table[CHOOSE k \in 1..Len(table) :
              table[k].name = name /\ \A m \in (k + 1)..Len(table) : table[m].name # name].code

\* a token as the stage is said to leave it; a name is looked up in lower
\* case, and one of the five XML entities is left as that entity
TokenAsStated(t, table) ==
    CASE t.kind \in {"numeric", "text"} -> t.text
      [] t.kind = "named" ->
             IF t.lower \in XML5 THEN "&" \o t.lower \o ";"
             ELSE IF InTable(table, t.lower)
             THEN "&#" \o ToString(CodeInTable(table, t.lower)) \o ";"
             ELSE "&amp;" \o t.name \o ";"
      [] t.kind = "amp" -> "&amp;" \o Tail(t.text)

RECURSIVE TokensAsStated(_, _, _)
TokensAsStated(tokens, table, k) ==
    IF k > Len(tokens) THEN ""
    ELSE TokenAsStated(tokens[k], table) \o TokensAsStated(tokens, table, k + 1)

\* C9: under the 'convert' policy the entity stage leaves the five XML
\* entities and the well-formed numeric references in place, rewrites a
\* named entity of the table to its numeric reference, a named entity
\* outside the table to "&amp;name;", and every other "&" to "&amp;"
C9_EntityStageAsStated ==
    (sanOutcome.state # "pending" /\ sanOpts.entityPolicy = Def("convert")) =>
        /\ sanOutcome.state = "returned"
        /\ sanOutcome.value = TokensAsStated(sanSource, TableOf(sanOpts), 1)

(***************************************************************************)
(* C10.  When preSanitize raises.                                          *)
(***************************************************************************)
\* the text holds, outside its masked segments, a named entity that is
\* neither one of the five XML entities nor in the entity table
HoldsUnknownEntity(chunks, opts) ==
    \E k \in 1..Len(chunks) :
        /\ chunks[k].entity # ""
        /\ chunks[k].entity \notin XML5
        /\ ~InTable(BUILTIN_ENTITIES, chunks[k].entity)
        /\ \/ "namedEntities" \notin DOMAIN opts
           \/ ~opts.namedEntities.defined
           \/ ~InTable(opts.namedEntities.value, chunks[k].entity)

\* C10: preSanitize raises only when entityPolicy is 'error' and the text
\* holds an unknown named entity outside its masked segments; for every
\* other input and configuration it returns a string
C10_RaisesOnlyOnUnknownEntity ==
    sanOutcome.state # "pending" =>
        \/ sanOutcome.state = "returned"
        \/ /\ sanOutcome.state = "thrown"
           /\ PolicyOf(MergedOptions(sanOpts)) = "error"
           /\ HoldsUnknownEntity(sanSource, sanOpts)

(***************************************************************************)
(* C11.  Sanitizing twice and sanitizing once.                             *)
(***************************************************************************)
\* C11: for every text and every fixed configuration under which
\* preSanitize does not raise, preSanitize(preSanitize(x)) equals
\* preSanitize(x)
C11_SanitizeTwiceIsOnce ==
    (sanOutcome.state = "returned" /\ sanAgain.state # "pending") =>
        /\ sanAgain.state = "returned"
        /\ sanAgain.value = sanOutcome.value

(***************************************************************************)
(* C12.  Well-formed text without container markup.                        *)
(***************************************************************************)
\* C12: for a well-formed text that holds no container tag, and in which
\* neither normalization (Unicode spaces inside tags, entities and
\* ampersands) has anything to rewrite, preSanitize with the default
\* configuration returns the text unchanged
C12_WellFormedUnchanged ==
    sanOutcome.state # "pending" => sanOutcome = SanReturned("preSanitize", sanXml, <<>>)

(***************************************************************************)
(* C13.  The order of the steps of Parser.parse.                           *)
(***************************************************************************)
ParseOrder ==
    << "parseXmlToXast", "getRootElement", "rootCheck", "resolveSchema", "fetcher",
       "buildIndex", "validate", "project" >>

IsPrefixOf(s, t) == Len(s) <= Len(t) /\ \A k \in 1..Len(s) : s[k] = t[k]

\* C13: the steps of a parse happen in the order root-name check, schema
\* resolution, fetch, index build, validation, projection; a root whose
\* local name is not the expected one raises the error that names both
\* names before schema resolution and the fetcher are invoked; the fetcher
\* is invoked at most once, and the index is built only after the promise
\* of the fetch is fulfilled
C13_StepsInOrder ==
    /\ IsPrefixOf(parseSteps, ParseOrder)
    /\ Len(parseFetch.urls) <= 1
    /\ SeqHas(parseSteps, "fetcher") <=> Len(parseFetch.urls) = 1
    /\ SeqHas(parseSteps, "buildIndex") => parseFetch.state = "fulfilled"
    /\ (/\ parsePc = "done"
        /\ parseDoc.ast = "tree"
        /\ localName(parseDoc.root.name) # expectedRoot(parseParser))
       => /\ parseOutcome = ParseThrown("rootCheck",
                               "Root must be <" \o expectedRoot(parseParser) \o ">, got <"
                                   \o localName(parseDoc.root.name) \o ">")
          /\ ~SeqHas(parseSteps, "resolveSchema")
          /\ parseFetch = NoFetch

\* a parse has run all its steps, the fetch awaited in between
C13_Witness ==
    /\ parsePc = "done"
    /\ parseSteps = ParseOrder
    /\ parseOutcome.state = "returned"
    /\ parseFetch.state = "fulfilled"

(***************************************************************************)
(* C14.  An error in a step ends the parse.                                *)
(***************************************************************************)
\* the step whose error ended the parse is the last step invoked
LastStep == IF parseSteps = <<>> THEN "" ELSE parseSteps[Len(parseSteps)]

\* C14: when schema resolution throws the fetcher is never called; when the
\* fetch rejects the index is never built; when the index build throws the
\* validation is never run; when the validation throws the projection is
\* never run; a result is returned only for a document that passed
\* validation
C14_ErrorEndsParse ==
    parsePc = "done" =>
        /\ (parseDoc.ast = "tree" /\ localName(parseDoc.root.name) = expectedRoot(parseParser)
            /\ resolveSchema(parseParser, parseDoc, parseDoc.root).threw)
           => (parseOutcome.state = "thrown" /\ parseFetch = NoFetch
               /\ ~SeqHas(parseSteps, "fetcher"))
        /\ (parseFetch.state \in {"rejected", "none"} /\ SeqHas(parseSteps, "fetcher"))
           => (parseOutcome.state = "thrown" /\ ~SeqHas(parseSteps, "buildIndex"))
        /\ (SeqHas(parseSteps, "buildIndex") /\ buildIndex(parseParser, parseFetcher.schema).threw)
           => (parseOutcome.state = "thrown" /\ ~SeqHas(parseSteps, "validate"))
        /\ (SeqHas(parseSteps, "buildIndex") /\ ~buildIndex(parseParser, parseFetcher.schema).threw
            /\ validate(parseParser, parseDoc.root,
                        buildIndex(parseParser, parseFetcher.schema).index).state = "thrown")
           => (parseOutcome.state = "thrown" /\ ~SeqHas(parseSteps, "project"))
        /\ parseOutcome.state = "thrown" => parseOutcome.step = LastStep
        /\ parseOutcome.state = "returned"
           => /\ ~buildIndex(parseParser, parseFetcher.schema).threw
              /\ validate(parseParser, parseDoc.root,
                          buildIndex(parseParser, parseFetcher.schema).index).state = "returned"
              /\ parseOutcome.value = project(parseParser, parseDoc.root)

\* a parse has ended at a validation error, with the index built and no
\* projection
C14_Witness ==
    /\ parsePc = "done"
    /\ parseOutcome.state = "thrown"
    /\ parseOutcome.step = "validate"
    /\ parseSteps = << "parseXmlToXast", "getRootElement", "rootCheck", "resolveSchema",
                       "fetcher", "buildIndex", "validate" >>


(***************************************************************************)
(* C15.  buildXsdIndex and definitions that reference themselves.          *)
(***************************************************************************)
HasSchemaRoot(ast) == \E j \in 1..Len(ast.children) : isEl(ast.children[j], "schema")

\* C15: buildXsdIndex returns an index for every schema, also when a named
\* complex type extends itself or two complex types extend each other, a
\* named group references itself, or attribute groups reference each other.
C15_ReturnsIndexForEverySchema ==
    (bldOutcome.state # "pending" /\ HasSchemaRoot(bldAst)) => bldOutcome.state = "returned"

\* the schemas of C15 whose references through group and attributeGroup come
\* back to the name being resolved do get an index
GroupCyclesReturn ==
    (bldOutcome.state = "thrown" /\ HasSchemaRoot(bldAst)) =>
        \E j \in 1..Len(bldAst.children[1].children) :
            localName(bldAst.children[1].children[j].name) = "complexType"


(***************************************************************************)
(* C16.  ',' and '|' at one nesting level of a content model.              *)
(***************************************************************************)
\* the positions of the text that hold the character c
PositionsOf(s, c) == { p \in 0..(Len(s) - 1) : CharAt(s, p) = c }

\* the number of groups open at position p
DepthAt(s, p) ==
    Cardinality({ q \in PositionsOf(s, "(") : q < p })
    - Cardinality({ q \in PositionsOf(s, ")") : q < p })

\* the group position p lies in: the position of its opening parenthesis,
\* -1 outside every group
GroupOf(s, p) ==
    IF DepthAt(s, p) = 0 THEN -1
    ELSE CHOOSE q \in PositionsOf(s, "(") :
            /\ q < p
            /\ DepthAt(s, q) = DepthAt(s, p) - 1
            /\ \A r \in PositionsOf(s, "(") : (r < p /\ DepthAt(s, r) = DepthAt(s, q)) => r <= q

\* the groups that hold the separator c at their own level
GroupsWith(s, c) == { GroupOf(s, p) : p \in PositionsOf(s, c) }

MixedSeparators(s) == GroupsWith(s, ",") \cap GroupsWith(s, "|") # {}

RECURSIVE NodesOfKind(_, _)
RECURSIVE ItemsOfKind(_, _)
RECURSIVE SumOver(_, _, _, _)

\* Op(items[k], kind) summed over the items
SumOver(items, kind, k, which) ==
    IF k > Len(items) THEN 0
    ELSE (IF which = "nodes" THEN NodesOfKind(items[k], kind) ELSE ItemsOfKind(items[k], kind))
         + SumOver(items, kind, k + 1, which)

\* the number of nodes of the kind in a content model
NodesOfKind(node, kind) ==
    (IF node.kind = kind THEN 1 ELSE 0) + SumOver(node.items, kind, 1, "nodes")

\* the number of items of the nodes of the kind
ItemsOfKind(node, kind) ==
    (IF node.kind = kind THEN Len(node.items) ELSE 0) + SumOver(node.items, kind, 1, "items")

\* the nodes of the kind are the groups with the separator c, and their items
\* the terms that c separates
NodesFromSeparator(node, kind, s, c) ==
    /\ NodesOfKind(node, kind) = Cardinality(GroupsWith(s, c))
    /\ ItemsOfKind(node, kind) = Cardinality(PositionsOf(s, c)) + Cardinality(GroupsWith(s, c))

C16_BuiltWitness ==
    /\ valDecls[1].model = "((a|b),(c|d)),(a|b)+"
    /\ valDtd.state = "built"


(***************************************************************************)
(* C17.  renderXast and the roots it does not support.                     *)
(***************************************************************************)
\* s.includes(sub)
Includes(s, sub) == \E i \in 0..(Len(s) - Len(sub)) : StrSlice(s, i, i + Len(sub)) = sub

\* C17: a root element whose local name is neither 'topic' nor 'md-page' is
\* rejected with an error whose message contains 'renderXast: unsupported
\* root', and no rendering step has run.
C17_UnsupportedRootRejected ==
    (renPc # "idle" /\ localName(renRoot.name) \notin {"topic", "md-page"}) =>
        /\ renPc = "done"
        /\ renOutcome.state = "rejected"
        /\ Includes(renOutcome.message, "renderXast: unsupported root")
        /\ renSteps = <<>>

C17_Witness ==
    /\ renRoot.name = "x:unknown"
    /\ Len(renRoot.children) = 2
    /\ renOutcome.state = "rejected"
    /\ renSteps = <<>>


(***************************************************************************)
(* C18, C19, C20.  The turns of the streaming pass.                        *)
(***************************************************************************)
\* the turns of the loop give the output of the loop as a whole
StreamStepsAgree ==
    (strSets # <<>> /\ strI >= Len(strText)) => strOut = streamLoop(strText, strSets, 0, "", <<>>)


\* the text with every "<" and every ">" replaced, character by character
RECURSIVE EscapeAnglesFrom(_, _)
EscapeAnglesFrom(s, k) ==
    IF k >= Len(s) THEN ""
    ELSE (IF CharAt(s, k) = "<" THEN "&lt;"
          ELSE IF CharAt(s, k) = ">" THEN "&gt;"
          ELSE CharAt(s, k)) \o EscapeAnglesFrom(s, k + 1)

EscapeAngles(s) == EscapeAnglesFrom(s, 0)

\* the last turn met a well-formed tag / met it inside a container
LastIsTag == strLast.kind = "tag"

LastInside == Len(strLast.ctxBefore) > 0

\* the tag of the last turn opens a configured container (step 1)
LastOpensContainer == ~strLast.tag.closing /\ isContainerOpen(strSets, strLast.tag.local)

\* the tag of the last turn closes the top context (step 2)
LastClosesTop ==
    /\ strLast.tag.closing
    /\ LastInside
    /\ strLast.tag.local = Last(strLast.ctxBefore).nameLocal

C18_ContainerTagWitness ==
    /\ LastIsTag /\ LastInside /\ strSets.forceTextInContainers
    /\ strLast.text = "<note>"
    /\ strLast.written = "<note>"


\* the last turn met, inside a container and with force-literal mode off, an
\* un-prefixed tag that is on the allow-list of the kind of the top context
LastAllowedTag ==
    /\ LastIsTag /\ LastInside
    /\ ~strSets.forceTextInContainers
    /\ indexOf(strLast.tag.qname, ":", 0) < 0
    /\ SeqHas(allowedForKind(strSets, Last(strLast.ctxBefore).kind), strLast.tag.local)

\* a closing tag that closes neither the top context nor the top of its innerStack
LastStrayClosing ==
    /\ strLast.tag.closing
    /\ ~LastClosesTop
    /\ \/ Len(Last(strLast.ctxBefore).innerStack) = 0
       \/ Last(Last(strLast.ctxBefore).innerStack) # strLast.tag.local

\* C19 as stated: inside a container with force-literal mode off, every
\* well-formed un-prefixed tag on the allow-list of the current context kind
\* is copied unchanged, opening or closing, whatever the balance stack holds.
C19_AllowedTagsCopied == LastAllowedTag => strLast.written = strLast.text

\* C19 amended: such a tag is copied unchanged unless it is a closing tag
\* that closes neither the top context nor the tag on top of the balance
\* stack of the top context; that stray closing tag is written with its
\* first "<" and its last ">" replaced by "&lt;" and "&gt;".
C19_AllowedTagsCopiedUnlessStray ==
    LastAllowedTag =>
        strLast.written =
            (IF LastStrayClosing
             THEN "&lt;" \o StrSlice(strLast.text, 1, Len(strLast.text) - 1) \o "&gt;"
             ELSE strLast.text)

\* an allowed closing tag that closes the allowed tag opened before it, copied
C19_Witness ==
    /\ LastAllowedTag
    /\ strText = "<note><b></b>"
    /\ strLast.text = "</b>"
    /\ Last(strLast.ctxBefore).innerStack = << "b" >>
    /\ strLast.written = "</b>"
    /\ Last(strCtx).innerStack = <<>>

\* an allowed closing tag with nothing open before it, written as text
C19_StrayWitness ==
    /\ LastAllowedTag
    /\ strText = "<note></b>"
    /\ strLast.text = "</b>"
    /\ strLast.written = "&lt;/b&gt;"


\* the names of the contexts of a stack, bottom first
NamesOf(ctxStack) == [k \in 1..Len(ctxStack) |-> ctxStack[k].nameLocal]

\* the tag of the last turn is an opening, non-self-closing container tag
LastPushes ==
    /\ LastIsTag
    /\ ~strLast.tag.closing /\ ~strLast.tag.selfClosing
    /\ isContainerOpen(strSets, strLast.tag.local)

\* C20: a turn of the streaming pass changes the context stack in two ways
\* only: an opening, non-self-closing tag of a configured container pushes
\* one context of that name, and a closing tag naming the top context pops
\* it; every other token leaves the stack as it was; and a token met while
\* the stack is empty is copied unchanged.
C20_StackChangesOnlyByPushAndPop ==
    strLast.kind # "none" =>
        /\ NamesOf(strCtx) =
               (IF LastPushes THEN Append(NamesOf(strLast.ctxBefore), strLast.tag.local)
                ELSE IF LastIsTag /\ LastClosesTop THEN Pop(NamesOf(strLast.ctxBefore))
                ELSE NamesOf(strLast.ctxBefore))
        /\ Len(strLast.ctxBefore) = 0 => strLast.written = strLast.text

\* a container opened, a tag met inside it, and the container closed again
C20_Witness ==
    /\ strText = "<note><b></b>"
    /\ strI = 9
    /\ strLast.text = "<b>"
    /\ NamesOf(strLast.ctxBefore) = << "note" >>
    /\ NamesOf(strCtx) = << "note" >>
    /\ strOut = "<note><b>"

\* the closing tag of the top context pops it, a second one finds no context
C20_PopWitness ==
    /\ strText = "<p></P></P>"
    /\ strI = 7
    /\ strLast.text = "</P>"
    /\ NamesOf(strLast.ctxBefore) = << "p" >>
    /\ strCtx = <<>>


(***************************************************************************)
(* C21, C22.  The masking scan and the comment repair.                     *)
(***************************************************************************)
\* the text before the masking scan of preSanitize(sanXml, sanOpts)
PreMaskText == sanitizeScrubs(MergedOptions(sanOpts), stripCodeFences(sanXml))

HolesOf(s) == maskProtectedSegments(s).holes

\* C21: every CDATA block, processing instruction and comment found by the
\* masking scan stands unchanged in the output of preSanitize, and
\* restoring an unmodified masked text gives back the text that was masked.
C21_MaskedSegmentsComeBack ==
    /\ (sanOutcome.state = "returned" /\ sanOutcome.call = "preSanitize")
           => \A k \in 1..Len(HolesOf(PreMaskText)) :
                  Includes(sanOutcome.value, HolesOf(PreMaskText)[k])
    /\ sanOutcome.call = "maskProtectedSegments" => sanOutcome.value = sanXml

\* the masking scan met a text shaped like a placeholder
C21_PlaceholderInInput ==
    /\ sanOutcome.call = "maskProtectedSegments"
    /\ Includes(sanXml, token(0))


\* where the comment that opens at open ends, and the next comment after it
RECURSIVE CommentBodiesFrom(_, _)
CommentBodiesAt(s, open, close) ==
    IF open < 0 \/ close < 0 THEN {}
    ELSE {StrSlice(s, open + 4, close)} \cup CommentBodiesFrom(s, close + 3)

\* the bodies of the comments of s: from each "<!--" to the next "-->"
CommentBodiesFrom(s, i) ==
    IF i >= Len(s) THEN {}
    ELSE CommentBodiesAt(s, indexOf(s, "<!--", i),
             IF indexOf(s, "<!--", i) < 0 THEN -1
             ELSE indexOf(s, "-->", indexOf(s, "<!--", i) + 4))

\* C22: after the comment-repair stage no comment delimited by a "<!--" and
\* the next "-->" has a body that holds two hyphens in a row.
C22_NoDoubleHyphenInComments ==
    sanOutcome.call = "repairInvalidComments" =>
        \A body \in CommentBodiesFrom(sanOutcome.value, 0) : ~Includes(body, "--")

\* C22 for bodies whose hyphens come in runs of at most two
C22_ShortRunsRepaired ==
    (sanOutcome.call = "repairInvalidComments" /\ ~Includes(sanXml, "---")) =>
        \A body \in CommentBodiesFrom(sanOutcome.value, 0) : ~Includes(body, "--")


(***************************************************************************)
(* C23, C24.  The DTD index and the order of the declarations.             *)
(***************************************************************************)
\* the members of an insertion-ordered set
MembersOf(s) == { s[k] : k \in 1..Len(s) }

\* the declarations of one kind for the element n, by position
DeclsFor(decls, kind, n) ==
    { k \in 1..Len(decls) : decls[k].decl = kind /\ decls[k].name = n }

\* the positions <<k, j>> at which the attribute a of element n is declared
AttrDeclsFor(decls, n, a) ==
    { <<k, j>> \in (1..Len(decls)) \X (1..2) :
          /\ k \in DeclsFor(decls, "ATTLIST", n)
          /\ j <= Len(decls[k].attrs)
          /\ decls[k].attrs[j].name = a }

\* each element has one ELEMENT declaration, each attribute is declared once
DeclaredOnce(decls) ==
    \A k \in 1..Len(decls) :
        /\ Cardinality(DeclsFor(decls, "ELEMENT", decls[k].name)) = 1
        /\ \A j \in 1..Len(decls[k].attrs) :
               Cardinality(AttrDeclsFor(decls, decls[k].name, decls[k].attrs[j].name)) = 1

\* two indexes give every element the same content model, allowed
\* children, attribute map and required attributes
SameIndex(e1, e2) ==
    /\ DOMAIN e1 = DOMAIN e2
    /\ \A n \in DOMAIN e1 :
           /\ e1[n].content = e2[n].content
           /\ e1[n].allowedChildren = e2[n].allowedChildren
           /\ e1[n].attrs = e2[n].attrs
           /\ MembersOf(e1[n].requiredAttrs) = MembersOf(e2[n].requiredAttrs)

Permuted(decls, p) == [k \in 1..Len(decls) |-> decls[p[k]]]

\* C23: for declarations in which each element has one ELEMENT declaration
\* and each attribute is declared once, every permutation of the
\* declarations gives the same index: for each element the same content
\* model, allowed children, attribute map and required-attribute set.
C23_OrderOfDeclarations ==
    (valDtd.state = "built" /\ DeclaredOnce(valDecls)) =>
        \A p \in Permutations(1..Len(valDecls)) :
            SameIndex(valDtd.elements, buildDtdIndex(Permuted(valDecls, p)).elements)

\* an element first seen through ATTLIST, then given its content by ELEMENT
C23_Witness ==
    /\ valDtd.state = "built"
    /\ DeclaredOnce(valDecls)
    /\ Len(valDecls) = 3
    /\ valDecls[1].decl = "ATTLIST" /\ valDecls[1].name = "a"
    /\ valDecls[3].decl = "ELEMENT" /\ valDecls[3].name = "a"
    /\ valDtd.elements["a"].allowedChildren = [kind |-> "SET", names |-> {"b", "c"}]
    /\ MembersOf(valDtd.elements["a"].requiredAttrs) = {"x", "z"}

\* C24: for every element record of the built index the required-attribute
\* set is the set of the attribute names whose stored declaration has the
\* default #REQUIRED, and the declared-attribute set is the key set of the
\* attribute map.
C24_RequiredAttrsFollowTheMap ==
    valDtd.state = "built" =>
        \A n \in DOMAIN valDtd.elements :
            /\ MembersOf(valDtd.elements[n].requiredAttrs)
                   = { a \in DOMAIN valDtd.elements[n].attrs :
                           valDtd.elements[n].attrs[a].defaultDecl.kind = "#REQUIRED" }
            /\ MembersOf(valDtd.elements[n].declaredAttrs) = DOMAIN valDtd.elements[n].attrs

\* C24 for declarations that declare no attribute twice
C24_HoldsWithoutRedeclaration ==
    (valDtd.state = "built"
     /\ \A k \in 1..Len(valDecls) : \A j \in 1..Len(valDecls[k].attrs) :
            \A kj \in AttrDeclsFor(valDecls, valDecls[k].name, valDecls[k].attrs[j].name) :
                valDecls[kj[1]].attrs[kj[2]] = valDecls[k].attrs[j])
    => \A n \in DOMAIN valDtd.elements :
           /\ MembersOf(valDtd.elements[n].requiredAttrs)
                  = { a \in DOMAIN valDtd.elements[n].attrs :
                          valDtd.elements[n].attrs[a].defaultDecl.kind = "#REQUIRED" }
           /\ MembersOf(valDtd.elements[n].declaredAttrs) = DOMAIN valDtd.elements[n].attrs


(***************************************************************************)
(* C25.  Group references that form a cycle.                               *)
(***************************************************************************)
\* the group names a particle refers to before it has taken any child
RECURSIVE FirstRefs(_)
FirstRefs(p) ==
    IF p.kind = "groupRef" THEN (IF p.occurs.max = 0 THEN {} ELSE {p.name})
    ELSE IF p.kind = "choice" THEN UNION { FirstRefs(p.items[k]) : k \in 1..Len(p.items) }
    ELSE IF p.kind = "sequence" /\ Len(p.items) > 0 THEN FirstRefs(p.items[1])
    ELSE {}

\* C25: matchesParticle ends with a boolean for every index and child list,
\* also when the groups of the index refer to one another in a cycle.
C25_MatchingReturns == xsdOk # "pending" => xsdOk \in {"true", "false"}

\* C25 for the cycles in which every turn takes a child first
C25_ReturnsWhenEveryTurnTakesAChild ==
    (xsdOk # "pending" /\ \A n \in GroupNames : FirstRefs(xsdIndex.groups[n]) = {})
        => xsdOk \in {"true", "false"}


(***************************************************************************)
(* C26.  Allowed children and substitution groups.                         *)
(***************************************************************************)
\* the names declared with substitutionGroup head
MembersFor(index, head) ==
    { index.substitutionGroupFor[j].key : j \in { k \in 1..Len(index.substitutionGroupFor) :
                                                     index.substitutionGroupFor[k].value = head } }

\* a name set holds the substitution-group members of each of its names
ClosedUnderSubstitution(index, names) ==
    \A n \in names : MembersFor(index, n) \subseteq names

\* C26: after buildXsdIndex every element definition whose allowed children
\* are a name set holds, with each name n of the set, every m declared with
\* substitutionGroup n, also through chains.
C26_AllowedChildrenClosed ==
    bldOutcome.state = "returned" =>
        \A j \in 1..Len(bldOutcome.index.elements) :
            bldOutcome.index.elements[j].value.allowedChildren.kind = "SET" =>
                ClosedUnderSubstitution(bldOutcome.index,
                    bldOutcome.index.elements[j].value.allowedChildren.names)

\* the direct members of the names of the particle are added
C26_DirectMembersAdded ==
    (bldOutcome.state = "returned" /\ MapHas(bldOutcome.index.elements, "e")) =>
        MembersFor(bldOutcome.index, "x")
            \subseteq MapAt(bldOutcome.index.elements, "e").allowedChildren.names


(***************************************************************************)
(* The order of the children in the validation against an XSD              *)
(* (SpecXsdOrder).                                                         *)
(***************************************************************************)
\* the sequences of child names that the content of the root matches in order
OrderLanguage == { <<"a">>, <<"a", "b">> }

IsNotIncludeName(n) == n # "include"

WithoutInclude(names) == SelectSeq(names, IsNotIncludeName)

FourRelaxedNames == {"topic", "section-starting-page", "links", "snippet"}

ContentModelError ==
    \E k \in 1..Len(valOutcome.errors) :
        StartsWith(valOutcome.errors[k].msg, "Child elements do not match XSD model")

OrderValidated == valOutcome.state # "pending"

\* C27 as stated: for an element whose name is none of topic,
\* section-starting-page, links and snippet, a content-model error is recorded
\* whenever the full sequence of its child names does not match its particle
\* in order.
C27_StrictForOtherNames ==
    (OrderValidated /\ valRoot.name \notin FourRelaxedNames
        /\ KidNames(valRoot) \notin OrderLanguage)
    => ContentModelError

\* C27: for an element whose name is none of topic, section-starting-page,
\* links and snippet, a content-model error is recorded exactly when neither
\* the full sequence of its child names nor that sequence without the children
\* named include matches its particle in order; the relaxations that ignore
\* the order apply to those four names only.
C27_StrictButForInclude ==
    (OrderValidated /\ valRoot.name \notin FourRelaxedNames)
    => (ContentModelError
          <=> /\ KidNames(valRoot) \notin OrderLanguage
              /\ WithoutInclude(KidNames(valRoot)) \notin OrderLanguage)

\* element p with the children b, a: out of order, and an error is recorded
C27_Witness ==
    /\ OrderValidated
    /\ valRoot.name = "p"
    /\ KidNames(valRoot) = <<"b", "a">>
    /\ ContentModelError

\* element links with the children b, a: out of order, and accepted
C27_RelaxedWitness ==
    /\ OrderValidated
    /\ valRoot.name = "links"
    /\ KidNames(valRoot) = <<"b", "a">>
    /\ ~ContentModelError

\* element p with the children include, a: accepted
C27_IncludeWitness ==
    /\ OrderValidated
    /\ valRoot.name = "p"
    /\ KidNames(valRoot) = <<"include", "a">>
    /\ ~ContentModelError


(***************************************************************************)
(* The attribute groups of the index (SpecXsdBuild), read from the schema  *)
(* itself: what a group declares and which groups it refers to.            *)
(***************************************************************************)
SchemaChildren ==
    IF Len(bldAst.children) > 0 /\ isEl(bldAst.children[1], "schema")
    THEN bldAst.children[1].children ELSE <<>>

AttrGroupPlaces ==
    { j \in 1..Len(SchemaChildren) :
         isEl(SchemaChildren[j], "attributeGroup") /\ attr(SchemaChildren[j], "name").defined }

AttrGroupNames == { attr(SchemaChildren[j], "name").value : j \in AttrGroupPlaces }

\* the declaration that counts for a name is the last one
AttrGroupHost(n) ==
    LET places == { j \in AttrGroupPlaces : attr(SchemaChildren[j], "name").value = n }
    IN SchemaChildren[CHOOSE j \in places : \A i \in places : i <= j]

OwnAttributes(n) ==
    LET kids == AttrGroupHost(n).children
    IN { attr(kids[j], "name").value :
           j \in { i \in 1..Len(kids) : isEl(kids[i], "attribute") /\ attr(kids[i], "name").defined } }

ReferredGroups(n) ==
    LET kids == AttrGroupHost(n).children
    IN { localName(attr(kids[j], "ref").value) :
           j \in { i \in 1..Len(kids) : isEl(kids[i], "attributeGroup") /\ attr(kids[i], "ref").defined } }
       \cap AttrGroupNames

RECURSIVE ReachableGroups(_, _)
\* the groups reached from the set in at most k references
ReachableGroups(set, k) ==
    IF k = 0 THEN set
    ELSE ReachableGroups(set \cup UNION { ReferredGroups(n) : n \in set }, k - 1)

GroupsReachedFrom(n) == ReachableGroups({n}, Cardinality(AttrGroupNames))

CachedAttributes(n) ==
    IF MapHas(bldOutcome.index.attributeGroups, n)
    THEN { MapKeys(MapAt(bldOutcome.index.attributeGroups, n))[j] :
             j \in 1..Len(MapAt(bldOutcome.index.attributeGroups, n)) }
    ELSE {}

AttrGroupComplete(n) ==
    /\ MapHas(bldOutcome.index.attributeGroups, n)
    /\ \A m \in GroupsReachedFrom(n) : OwnAttributes(m) \subseteq CachedAttributes(n)

\* C28: after buildXsdIndex the cached map of every attribute group holds
\* every attribute declared in the group and in every group reachable from it
\* through attributeGroup references, also when the references form a cycle.
C28_AttrGroupCachesComplete ==
    bldOutcome.state = "returned" => \A n \in AttrGroupNames : AttrGroupComplete(n)

\* a group that lies on no cycle through another group has a complete map
C28_CompleteOffCycles ==
    bldOutcome.state = "returned"
    => \A n \in AttrGroupNames :
          (\A m \in GroupsReachedFrom(n) \ {n} : n \notin GroupsReachedFrom(m))
          => AttrGroupComplete(n)

\* two groups that refer to each other: the one resolved first is complete
C28_FirstOfCycleComplete ==
    /\ bldOutcome.state = "returned"
    /\ \E n, m \in AttrGroupNames :
          n # m /\ m \in ReferredGroups(n) /\ n \in ReferredGroups(m) /\ AttrGroupComplete(n)


(***************************************************************************)
(* The export hash and the page body under ConfluenceSync.sync (SpecSync). *)
(***************************************************************************)
Quiescent(p) == \A c \in SyncSlots : ~(InProgress(c) /\ synCalls[c].pageId = p)

HashOfLastWritten(p) ==
    IF synHistory[p].last = NoBody THEN NoExportHash
    ELSE computeExportHash(synHistory[p].last)

\* what the call read differs from the hash of its body, or it read nothing
ReadHashDiffers(c) ==
    synCalls[c].prevHash = "" \/ synCalls[c].prevHash # "sha256:" \o synCalls[c].storageHtml

SyncInvariant ==
    /\ \A p \in PageIds :
          synProps[p] # NoExportHash
          => \E b \in synHistory[p].written : synProps[p] = computeExportHash(b)
    /\ \A c \in SyncSlots :
          /\ synCalls[c].pc \in {"putStorageBody", "setExportHash"} => ReadHashDiffers(c)
          /\ synCalls[c].pc \in {"ensure", "returned"}
             => (synCalls[c].updatedBody <=> ReadHashDiffers(c))
    /\ \A p \in PageIds :
          (Quiescent(p) /\ ~synHistory[p].overlapped /\ ~synHistory[p].hashLost)
          => /\ synProps[p] = HashOfLastWritten(p)
             /\ synPages[p] = synHistory[p].last

\* the stored hash changes only in the step after the body write of the same
\* call has succeeded, and the body only in a call that read another hash
SyncSteps ==
    \A p \in PageIds :
        /\ synProps'[p] # synProps[p]
           => \E c \in SyncSlots :
                 /\ synCalls[c].pc = "setExportHash" /\ synCalls[c].pageId = p
                 /\ synCalls[c].storageHtml \in synHistory[p].written
                 /\ synProps'[p] = computeExportHash(synCalls[c].storageHtml)
        /\ synHistory'[p].written # synHistory[p].written \/ synPages'[p] # synPages[p]
           => \E c \in SyncSlots :
                 /\ synCalls[c].pc = "putStorageBody" /\ synCalls[c].pageId = p
                 /\ ReadHashDiffers(c)
                 /\ synPages'[p] = synCalls[c].storageHtml

C29_RejectedWriteWitness ==
    \E c \in SyncSlots :
        /\ synCalls[c].pc = "rejected"
        /\ synCalls[c].prevHash # NoExportHash
        /\ ReadHashDiffers(c)
        /\ synProps[synCalls[c].pageId] = synCalls[c].prevHash
        /\ synPages[synCalls[c].pageId] # synCalls[c].storageHtml

\* the body was written and setExportHash was rejected
C29_LostHashWitness ==
    \E p \in PageIds :
        Quiescent(p) /\ ~synHistory[p].overlapped /\ synHistory[p].hashLost


(***************************************************************************)
(* The reads of getOriginalSize under concurrent calls (SpecSize).         *)
(***************************************************************************)
ReadsOf(filePath) == Cardinality({ k \in 1..Len(sizeReads) : sizeReads[k] = filePath })

\* no call without a reader has made the promise of the path
ReaderAlways(filePath) ==
    \A k \in 1..Len(sizePromises) :
        sizePromises[k].filePath = filePath => sizePromises[k].outcome # "noReader"

PromisesOf(filePath) == { k \in 1..Len(sizePromises) : sizePromises[k].filePath = filePath }

\* C30: in every interleaving of calls of getOriginalSize for a path, all with
\* a reader, the reader is invoked at most once for the path; the calls that
\* arrive while the read is pending return its result, the calls that arrive
\* after it has settled return the cached result, a failed read caches the
\* empty size, and the entry of sizePending is there only until the call
\* that made it goes on after the read.
C30_ReaderInvokedOnce ==
    \A filePath \in ImagePaths :
        /\ ReadsOf(filePath) <= 1
        /\ filePath \in DOMAIN sizePending
           => \E c \in SizeSlots : /\ sizeCalls[c].pc = "awaitOwn"
                                    /\ sizeCalls[c].filePath = filePath
                                    /\ sizeCalls[c].promise = sizePending[filePath]
        /\ ReaderAlways(filePath)
           => /\ \A k \in PromisesOf(filePath) :
                    /\ sizePromises[k].state = "resolved"
                       => /\ filePath \in DOMAIN sizeCache
                          /\ sizeCache[filePath] = sizePromises[k].value
                    /\ sizePromises[k].outcome = "failed"
                       => sizeCache[filePath] = [w |-> Undef, h |-> Undef]
              /\ \A c \in SizeSlots :
                    (sizeCalls[c].pc = "returned" /\ sizeCalls[c].filePath = filePath)
                    => /\ ReadsOf(filePath) = 1
                       /\ filePath \in DOMAIN sizeCache
                       /\ sizeCalls[c].result = sizeCache[filePath]

\* three calls for one path have returned the same measured size: the first
\* read the file, the second arrived during the read, the third after it
C30_Witness ==
    \E filePath \in ImagePaths :
        /\ ReaderAlways(filePath)
        /\ ReadsOf(filePath) = 1
        /\ filePath \notin DOMAIN sizePending
        /\ \A via \in {"own", "shared", "cached"} :
              \E c \in SizeSlots :
                 /\ sizeCalls[c].pc = "returned" /\ sizeCalls[c].filePath = filePath
                 /\ sizeCalls[c].via = via
                 /\ sizeCalls[c].result = Size(Def(2), Def(3))

\* the same after a read that failed: the empty size is returned from the cache
C30_FailedReadWitness ==
    \E filePath \in ImagePaths :
        /\ ReaderAlways(filePath)
        /\ \E k \in PromisesOf(filePath) : sizePromises[k].outcome = "failed"
        /\ \E c \in SizeSlots :
              /\ sizeCalls[c].pc = "returned" /\ sizeCalls[c].filePath = filePath
              /\ sizeCalls[c].via = "cached" /\ sizeCalls[c].result = EmptySize

=============================================================================
